---- MODULE Spec2Model ----
(***************************************************************************)
(* Authentication / session core of the tkhan-chat backend: JWT issuance   *)
(* and validation, the refresh-token store with rotation and revocation,   *)
(* and the password login of the account use case.                         *)
(*                                                                         *)
(* Time is a discrete clock `now`; one tick is the granularity of the JWT  *)
(* NumericDate claims.  A JWT string is modelled by the record of          *)
(* everything that determines it: header algorithm, claims and the key     *)
(* the signature was computed with (HMAC signing is deterministic, so two  *)
(* tokens with equal fields are the same string).                          *)
(***************************************************************************)
EXTENDS Integers, FiniteSets, Sequences, TLC

VARIABLES
    now,            \* the wall clock (time.Now())
    users,          \* the users table: a set of user records
    refreshTokens,  \* the refresh_tokens table: a set of records
    reqs,           \* in-flight UserHandler.RefreshToken requests
    resp,           \* the last HTTP response / use-case result delivered
    refreshLog,     \* history: <<presented, new>> of every successful refresh
    logoutRevoked,  \* history: token strings revoked by a Logout
    tokenSeq,       \* number of random tokens drawn so far (crypto/rand)
    calls           \* in-flight account use-case calls, between read and save

vars == <<now, users, refreshTokens, reqs, resp, refreshLog, logoutRevoked, tokenSeq,
          calls>>

----------------------------------------------------------------------------
(* Bounds of the model *)

MaxTime == 3
MaxReqs == 2
MaxSessions == 3

(* Program constants, in clock ticks *)
AccessTTL == 1
RefreshTTL == 3

Null == -1
Reqs == 1..MaxReqs
Times == 0..MaxTime

----------------------------------------------------------------------------
(* JWT session service: usecase/auth/jwt_service.go *)

AccessToken == "access"
RefreshToken == "refresh"
TokenTypes == {AccessToken, RefreshToken}

SecretKey == "secret"
Keys == {SecretKey, "attacker"}
HMACFamily == {"HS256", "HS384", "HS512"}
Algs == {"HS256", "HS384", "RS256", "none"}

ErrNone == "none"
ErrInvalidToken == "INVALID_TOKEN"
ErrTokenExpired == "TOKEN_EXPIRED"
ErrTokenRevoked == "TOKEN_REVOKED"
ErrRefreshTokenNotFound == "REFRESH_TOKEN_NOT_FOUND"
ErrInvalidCredentials == "INVALID_CREDENTIALS"
ErrEmailNotVerified == "EMAIL_NOT_VERIFIED"
ErrOAuthAccount == "this account uses OAuth login, please use Google login"
ErrTokenMismatch == "invalid token"
ErrStoreRefreshToken == "failed to store refresh token"

NoClaims == [uid |-> "", typ |-> "", iat |-> Null, exp |-> Null]
NoToken == [uid |-> "", typ |-> "", iat |-> Null, exp |-> Null, alg |-> "", key |-> ""]

GetAccessTokenExpiration == AccessTTL
GetRefreshTokenExpiration == RefreshTTL

\* generateToken: claims {user_id, token_type, exp = now+duration, iat = nbf = now}
\* signed with HS256 under the service's secret.
generateToken(userID, tokenType, duration, t) ==
    [uid |-> userID, typ |-> tokenType, iat |-> t, exp |-> t + duration,
     alg |-> "HS256", key |-> SecretKey]

GenerateAccessToken(userID, t) ==
    generateToken(userID, AccessToken, GetAccessTokenExpiration, t)

GenerateRefreshToken(userID, t) ==
    generateToken(userID, RefreshToken, GetRefreshTokenExpiration, t)

\* A plausible slip: the key function accepts whatever algorithm the header names.
KeyFuncAnyAlg(tok) == TRUE

\* The key function given to jwt.ParseWithClaims: the secret is handed out only
\* when the token's method is of the HMAC family (*jwt.SigningMethodHMAC).
KeyFunc(tok) == tok.alg \in HMACFamily

\* jwt.ParseWithClaims at time t: key function, signature under the returned key,
\* then the library's claims validation (exp must be after t; nbf = iat <= t).
ParseWithClaims(tok, t) ==
    /\ KeyFunc(tok)
    /\ tok.key = SecretKey
    /\ t < tok.exp
    /\ tok.iat <= t

\* A plausible slip: the token-type comparison is left out.
TypeMatchesNoCheck(tok, expectedType) == TRUE

TypeMatches(tok, expectedType) == tok.typ = expectedType

\* ValidateToken(tokenString, expectedType): parseTime is the tick of the clock
\* read inside the library's parse, checkTime the tick of the handler's own
\* time.Now() in the final expiration check (parseTime <= checkTime).  The exp
\* claim is a whole tick, so the library's now < exp holds up to tick exp-1,
\* and ExpiresAt.Before(now) holds for the instants of tick exp and later.
ValidateToken(tok, expectedType, parseTime, checkTime) ==
    IF ~ParseWithClaims(tok, parseTime)
    THEN [err |-> ErrInvalidToken, claims |-> NoClaims]
    ELSE IF ~TypeMatches(tok, expectedType)
    THEN [err |-> ErrInvalidToken, claims |-> NoClaims]
    ELSE IF tok.exp <= checkTime
    THEN [err |-> ErrTokenExpired, claims |-> NoClaims]
    ELSE [err |-> ErrNone,
          claims |-> [uid |-> tok.uid, typ |-> tok.typ, iat |-> tok.iat, exp |-> tok.exp]]

----------------------------------------------------------------------------
(* Refresh token entity, repository and use case *)

NoRecord == [token |-> NoToken, userID |-> "", expiresAt |-> Null,
             createdAt |-> Null, revokedAt |-> Null]

\* entity.NewRefreshToken (the uuid primary key is fresh and never read)
NewRefreshToken(userID, token, expiresAt, t) ==
    [token |-> token, userID |-> userID, expiresAt |-> expiresAt,
     createdAt |-> t, revokedAt |-> Null]

\* A plausible slip: validity that forgets the revocation mark.
IsValidIgnoringRevocation(rt, t) == t < rt.expiresAt

\* RefreshToken.IsValid
IsValid(rt, t) == rt.revokedAt = Null /\ t < rt.expiresAt

\* A token lookup that finds nothing
GetByTokenNeverFinds(store, token) == [err |-> ErrRefreshTokenNotFound, rec |-> NoRecord]

\* refreshTokenRepository.GetByToken
GetByToken(store, token) ==
    IF \E rt \in store : rt.token = token
    THEN [err |-> ErrNone, rec |-> CHOOSE rt \in store : rt.token = token]
    ELSE [err |-> ErrRefreshTokenNotFound, rec |-> NoRecord]

\* refreshTokenRepository.Create: INSERT under the unique index on token
Create(store, rt) ==
    IF \E old \in store : old.token = rt.token
    THEN [err |-> ErrStoreRefreshToken, store |-> store]
    ELSE [err |-> ErrNone, store |-> store \cup {rt}]

\* A plausible slip: the UPDATE matches no row.
RevokeNothing(store, token, t) == store

\* refreshTokenRepository.Revoke: UPDATE ... SET revoked_at = now WHERE token = ?
Revoke(store, token, t) ==
    {IF rt.token = token THEN [rt EXCEPT !.revokedAt = t] ELSE rt : rt \in store}

\* A plausible slip: the bulk revocation without the user_id condition.
RevokeAllUsers(store, userID, t) ==
    {IF rt.revokedAt = Null THEN [rt EXCEPT !.revokedAt = t] ELSE rt : rt \in store}

\* refreshTokenRepository.RevokeAllByUserID:
\* UPDATE ... SET revoked_at = now WHERE user_id = ? AND revoked_at IS NULL
RevokeAllByUserID(store, userID, t) ==
    {IF rt.userID = userID /\ rt.revokedAt = Null
     THEN [rt EXCEPT !.revokedAt = t] ELSE rt : rt \in store}

\* refreshTokenRepository.DeleteExpired: DELETE ... WHERE expires_at < now
DeleteExpired(store, t) == {rt \in store : ~(rt.expiresAt < t)}

\* refreshTokenUseCase.CreateRefreshToken
CreateRefreshToken(store, userID, token, expiresAt, t) ==
    Create(store, NewRefreshToken(userID, token, expiresAt, t))

\* A plausible slip: every invalid record is reported as expired.
ValidateRefreshTokenAlwaysExpired(store, token, t) ==
    LET found == GetByToken(store, token) IN
    IF found.err # ErrNone
    THEN [err |-> ErrRefreshTokenNotFound, rec |-> NoRecord]
    ELSE IF ~IsValid(found.rec, t)
    THEN [err |-> ErrTokenExpired, rec |-> NoRecord]
    ELSE [err |-> ErrNone, rec |-> found.rec]

\* refreshTokenUseCase.ValidateRefreshToken
ValidateRefreshToken(store, token, t) ==
    LET found == GetByToken(store, token) IN
    IF found.err # ErrNone
    THEN [err |-> ErrRefreshTokenNotFound, rec |-> NoRecord]
    ELSE IF ~IsValid(found.rec, t)
    THEN IF found.rec.revokedAt # Null
         THEN [err |-> ErrTokenRevoked, rec |-> NoRecord]
         ELSE [err |-> ErrTokenExpired, rec |-> NoRecord]
    ELSE [err |-> ErrNone, rec |-> found.rec]

\* A revocation that deletes the record instead of marking it
RevokeRefreshTokenByDeleting(store, token, t) == {rt \in store : rt.token # token}

\* refreshTokenUseCase.RevokeRefreshToken
RevokeRefreshToken(store, token, t) == Revoke(store, token, t)

\* refreshTokenUseCase.RevokeAllUserTokens
RevokeAllUserTokens(store, userID, t) == RevokeAllByUserID(store, userID, t)

----------------------------------------------------------------------------
(* User entity and the password login of the account use case *)

Emails == {"a@x.com", "b@x.com"}
Passwords == {"pw1", "pw2"}

\* bcrypt.GenerateFromPassword (the salt is not modelled: verification only
\* depends on which password the hash was made from)
GenerateFromPassword(password) ==
    CASE password = "pw1" -> "$2a$10$pw1"
      [] password = "pw2" -> "$2a$10$pw2"

\* bcrypt.CompareHashAndPassword = nil; an empty hash never verifies
CompareHashAndPassword(hash, password) ==
    hash # "" /\ hash = GenerateFromPassword(password)

NoUser == [id |-> "", email |-> "", password |-> "", oauthProvider |-> "",
           oauthID |-> "", emailVerified |-> FALSE,
           verificationToken |-> "", verificationTokenExpiresAt |-> Null,
           resetPasswordToken |-> "", resetPasswordTokenExpiresAt |-> Null]

\* entity.NewUser
NewUser(id, email, password) ==
    [NoUser EXCEPT !.id = id, !.email = email, !.password = password]

\* User.IsOAuthUser
IsOAuthUser(u) == u.oauthProvider # "" /\ u.oauthID # ""

\* An email lookup that finds nothing
GetByEmailNeverFinds(table, email) == [err |-> "USER_NOT_FOUND", user |-> NoUser]

\* userRepository.GetByEmail
GetByEmail(table, email) ==
    IF \E u \in table : u.email = email
    THEN [err |-> ErrNone, user |-> CHOOSE u \in table : u.email = email]
    ELSE [err |-> "USER_NOT_FOUND", user |-> NoUser]

\* Login without the email verification gate
LoginWithoutVerificationGate(table, email, password) ==
    LET found == GetByEmail(table, email) IN
    IF found.err # ErrNone
    THEN [err |-> ErrInvalidCredentials, user |-> NoUser]
    ELSE IF IsOAuthUser(found.user)
    THEN [err |-> ErrOAuthAccount, user |-> NoUser]
    ELSE IF ~CompareHashAndPassword(found.user.password, password)
    THEN [err |-> ErrInvalidCredentials, user |-> NoUser]
    ELSE [err |-> ErrNone, user |-> found.user]

\* authUseCase.Login
Login(table, email, password) ==
    LET found == GetByEmail(table, email) IN
    IF found.err # ErrNone
    THEN [err |-> ErrInvalidCredentials, user |-> NoUser]
    ELSE IF IsOAuthUser(found.user)
    THEN [err |-> ErrOAuthAccount, user |-> NoUser]
    ELSE IF ~found.user.emailVerified
    THEN [err |-> ErrEmailNotVerified, user |-> NoUser]
    ELSE IF ~CompareHashAndPassword(found.user.password, password)
    THEN [err |-> ErrInvalidCredentials, user |-> NoUser]
    ELSE [err |-> ErrNone, user |-> found.user]

----------------------------------------------------------------------------
(* HTTP handlers *)

IdleReq == [pc |-> "idle", tok |-> NoToken, uid |-> "",
            newAccess |-> NoToken, newRefresh |-> NoToken]

\* A free slot for an account use-case call
IdleCall == [pc |-> "idle", op |-> "", err |-> ErrNone, saved |-> NoUser, in |-> NoToken]

Response(op, err, in) == [op |-> op, err |-> err, in |-> in]

\* The access tokens handed to clients: one with every persisted refresh token.
IssuedAccessTokens ==
    {GenerateAccessToken(rt.userID, rt.createdAt) : rt \in refreshTokens}

\* Token strings a client can send: the ones the service handed out, and the
\* refresh tokens re-signed by somebody who does not hold the secret.
PresentableTokens ==
    {rt.token : rt \in refreshTokens} \cup IssuedAccessTokens
        \cup {[rt.token EXCEPT !.key = "attacker"] : rt \in refreshTokens}

\* AuthHandler.Login: authUseCase.Login, then the token pair is generated and
\* the refresh token persisted.
AuthHandlerLogin(email, password) ==
    LET r == Login(users, email, password)
        in == [email |-> email, password |-> password]
        refreshToken == GenerateRefreshToken(r.user.id, now)
        expiresAt == now + GetRefreshTokenExpiration
        c == CreateRefreshToken(refreshTokens, r.user.id, refreshToken, expiresAt, now)
    IN /\ Cardinality(refreshTokens) + Cardinality({q \in Reqs : reqs[q].pc # "idle"}) < MaxSessions
       /\ IF r.err # ErrNone
          THEN /\ resp' = Response("Login", r.err, in)
               /\ UNCHANGED refreshTokens
          ELSE IF c.err # ErrNone
          THEN /\ resp' = Response("Login", c.err, in)
               /\ UNCHANGED refreshTokens
          ELSE /\ refreshTokens' = c.store
               /\ resp' = Response("Login", ErrNone, in)
       /\ UNCHANGED <<now, users, reqs, refreshLog, logoutRevoked, tokenSeq, calls>>

\* UserHandler.RefreshToken up to the generation of the new pair: JWT
\* validation, store validation, ownership comparison.  The request takes the
\* first free slot (slots are interchangeable).
RefreshValidate(r, tok) ==
    LET v == ValidateToken(tok, RefreshToken, now, now)
        s == ValidateRefreshToken(refreshTokens, tok, now)
        fail(e) == /\ resp' = Response("RefreshToken", e, tok)
                   /\ UNCHANGED reqs
    IN /\ reqs[r].pc = "idle"
       /\ \A q \in Reqs : q < r => reqs[q].pc # "idle"
       /\ Cardinality(refreshTokens) + Cardinality({q \in Reqs : reqs[q].pc # "idle"}) < MaxSessions
       /\ IF v.err # ErrNone THEN fail(v.err)
          ELSE IF s.err # ErrNone THEN fail(s.err)
          ELSE IF s.rec.userID # v.claims.uid THEN fail(ErrTokenMismatch)
          ELSE /\ reqs' = [reqs EXCEPT ![r] =
                      [pc |-> "revoke", tok |-> tok, uid |-> v.claims.uid,
                       newAccess |-> GenerateAccessToken(v.claims.uid, now),
                       newRefresh |-> GenerateRefreshToken(v.claims.uid, now)]]
               /\ resp' = Response("RefreshToken", "pending", NoToken)
       /\ UNCHANGED <<now, users, refreshTokens, refreshLog, logoutRevoked, tokenSeq, calls>>

\* UserHandler.RefreshToken: the old refresh token is revoked.
RefreshRevoke(r) ==
    /\ reqs[r].pc = "revoke"
    /\ refreshTokens' = RevokeRefreshToken(refreshTokens, reqs[r].tok, now)
    /\ reqs' = [reqs EXCEPT ![r].pc = "create"]
    /\ resp' = Response("RefreshToken", "pending", NoToken)
    /\ UNCHANGED <<now, users, refreshLog, logoutRevoked, tokenSeq, calls>>

\* UserHandler.RefreshToken: the new refresh token is persisted and the pair
\* returned.
RefreshCreate(r) ==
    LET q == reqs[r]
        expiresAt == now + GetRefreshTokenExpiration
        c == CreateRefreshToken(refreshTokens, q.uid, q.newRefresh, expiresAt, now)
    IN /\ q.pc = "create"
       /\ reqs' = [reqs EXCEPT ![r] = IdleReq]
       /\ IF c.err # ErrNone
          THEN /\ resp' = Response("RefreshToken", c.err, q.tok)
               /\ UNCHANGED <<refreshTokens, refreshLog>>
          ELSE /\ refreshTokens' = c.store
               /\ refreshLog' = refreshLog \cup {<<q.tok, q.newRefresh>>}
               /\ resp' = Response("RefreshToken", ErrNone, q.tok)
       /\ UNCHANGED <<now, users, logoutRevoked, tokenSeq, calls>>

\* AuthMiddleware.Authenticate followed by UserHandler.Logout
Logout(bearer) ==
    LET v == ValidateToken(bearer, AccessToken, now, now)
        userID == v.claims.uid
    IN /\ IF v.err # ErrNone
          THEN /\ resp' = Response("Logout", "invalid or expired token", [uid |-> ""])
               /\ UNCHANGED <<refreshTokens, logoutRevoked>>
          ELSE /\ refreshTokens' = RevokeAllUserTokens(refreshTokens, userID, now)
               /\ logoutRevoked' = logoutRevoked \cup
                      {rt.token : rt \in {x \in refreshTokens :
                                            x.userID = userID /\ x.revokedAt = Null}}
               /\ resp' = Response("Logout", ErrNone, [uid |-> userID])
       /\ UNCHANGED <<now, users, reqs, refreshLog, tokenSeq, calls>>

\* The clock advances.
Tick ==
    /\ now < MaxTime
    /\ now' = now + 1
    /\ resp' = Response("Tick", ErrNone, NoToken)
    /\ UNCHANGED <<users, refreshTokens, reqs, refreshLog, logoutRevoked, tokenSeq, calls>>

----------------------------------------------------------------------------
(* Sessions: two registered and verified password accounts log in, refresh  *)
(* and log out.                                                             *)

VerifiedUser(id, email, password) ==
    [NewUser(id, email, GenerateFromPassword(password)) EXCEPT !.emailVerified = TRUE]

InitSession ==
    /\ now = 0
    /\ users = {VerifiedUser("u1", "a@x.com", "pw1"), VerifiedUser("u2", "b@x.com", "pw2")}
    /\ refreshTokens = {}
    /\ reqs = [r \in Reqs |-> IdleReq]
    /\ resp = Response("", ErrNone, NoToken)
    /\ refreshLog = {}
    /\ logoutRevoked = {}
    /\ tokenSeq = 0
    /\ calls = [r \in Reqs |-> IdleCall]

NextSession ==
    \/ \E e \in Emails, p \in Passwords : AuthHandlerLogin(e, p)
    \/ \E r \in Reqs : \E tok \in PresentableTokens : RefreshValidate(r, tok)
    \/ \E r \in Reqs : RefreshRevoke(r)
    \/ \E r \in Reqs : RefreshCreate(r)
    \/ \E bearer \in PresentableTokens : Logout(bearer)
    \/ Tick

SpecSession == InitSession /\ [][NextSession]_vars

----------------------------------------------------------------------------
(* The JWT service on its own: ValidateToken applied to the tokens the      *)
(* service generates and to re-signed or re-headed variants of them.        *)

UserIDs == {"u1", "u2"}

TTLOf(tokenType) ==
    IF tokenType = AccessToken THEN GetAccessTokenExpiration ELSE GetRefreshTokenExpiration

\* Every token string issued up to time t, under every header algorithm and key.
TokenUniverse(t) ==
    {[generateToken(u, typ, TTLOf(typ), iat) EXCEPT !.alg = a, !.key = k] :
        u \in UserIDs, typ \in TokenTypes, iat \in 0..t, a \in Algs, k \in Keys}

\* jwtService.ValidateToken called now; the handler's own clock read may fall
\* in the next tick.
CallValidateToken(tok, expectedType, checkTime) ==
    LET v == ValidateToken(tok, expectedType, now, checkTime)
    IN /\ resp' = Response("ValidateToken", v.err,
                      [tok |-> tok, expectedType |-> expectedType, at |-> now,
                       checkedAt |-> checkTime, uid |-> v.claims.uid])
       /\ UNCHANGED <<now, users, refreshTokens, reqs, refreshLog, logoutRevoked, tokenSeq, calls>>

InitJWT ==
    /\ now = 0
    /\ users = {}
    /\ refreshTokens = {}
    /\ reqs = [r \in Reqs |-> IdleReq]
    /\ resp = Response("", ErrNone, NoToken)
    /\ refreshLog = {}
    /\ logoutRevoked = {}
    /\ tokenSeq = 0
    /\ calls = [r \in Reqs |-> IdleCall]

NextJWT ==
    \/ \E tok \in TokenUniverse(now), expectedType \in TokenTypes,
          checkTime \in {now, now + 1} : CallValidateToken(tok, expectedType, checkTime)
    \/ Tick

SpecJWT == InitJWT /\ [][NextJWT]_vars

\* The token is exactly what generateToken produces for its claims.
IssuedByService(tok) == tok = generateToken(tok.uid, tok.typ, TTLOf(tok.typ), tok.iat)

\* C6: a generated token validated within its lifetime is accepted, with the
\* user id it was generated for, where its own type is expected and refused
\* with InvalidToken where the other type is expected; no token at all is
\* accepted where a type other than its own is expected.
TokenTypeIsEnforced ==
    resp.op = "ValidateToken" =>
        /\ (IssuedByService(resp.in.tok) /\ resp.in.checkedAt < resp.in.tok.exp) =>
              IF resp.in.expectedType = resp.in.tok.typ
              THEN resp.err = ErrNone /\ resp.in.uid = resp.in.tok.uid
              ELSE resp.err = ErrInvalidToken
        /\ resp.err = ErrNone => resp.in.tok.typ = resp.in.expectedType

\* C6 witness: an access token presented where a refresh token is expected
\* has been refused.
AccessTokenRefusedAsRefresh ==
    /\ resp.op = "ValidateToken"
    /\ IssuedByService(resp.in.tok)
    /\ resp.in.tok.typ = AccessToken
    /\ resp.in.expectedType = RefreshToken
    /\ resp.in.checkedAt < resp.in.tok.exp
    /\ resp.err = ErrInvalidToken

\* C7: a generated token of the expected type validated after its lifetime
\* fails with TokenExpired; InvalidToken only answers signature, format or
\* type failures.
ExpiredTokenReportsTokenExpired ==
    (/\ resp.op = "ValidateToken"
     /\ IssuedByService(resp.in.tok)
     /\ resp.in.tok.typ = resp.in.expectedType
     /\ resp.in.at > resp.in.tok.exp) => resp.err = ErrTokenExpired

\* C8 as stated: only tokens whose header names HS256, the algorithm the
\* service signs with, are accepted.
OnlySigningAlgorithmAccepted ==
    (resp.op = "ValidateToken" /\ resp.err = ErrNone) => resp.in.tok.alg = "HS256"

\* C8 as amended: only tokens whose header names an algorithm of the HMAC
\* family, signed under the service's secret, are accepted; any other
\* algorithm, "none" included, is refused with InvalidToken.
OnlyHMACFamilyAccepted ==
    resp.op = "ValidateToken" =>
        /\ resp.err = ErrNone =>
              resp.in.tok.alg \in HMACFamily /\ resp.in.tok.key = SecretKey
        /\ resp.in.tok.alg \notin HMACFamily => resp.err = ErrInvalidToken

\* C8 witness: a token in its lifetime, of the expected type and carrying the
\* service's key material behind a "none" header has been refused.
NoneAlgorithmRefused ==
    /\ resp.op = "ValidateToken"
    /\ resp.in.tok.alg = "none"
    /\ resp.in.tok.key = SecretKey
    /\ resp.in.tok.typ = resp.in.expectedType
    /\ resp.in.at < resp.in.tok.exp
    /\ resp.err = ErrInvalidToken

----------------------------------------------------------------------------
(* Properties of the refresh protocol *)

\* (a) the token is signed by the service, of refresh type and not expired
JwtAcceptableAsRefresh(tok, t) ==
    /\ tok.key = SecretKey
    /\ tok.alg \in HMACFamily
    /\ tok.typ = RefreshToken
    /\ t < tok.exp

\* (b) the store holds an unrevoked, unexpired record for the token
StoreRecordValid(tok, t) ==
    \E rt \in refreshTokens :
        rt.token = tok /\ rt.revokedAt = Null /\ t < rt.expiresAt

\* (c) the record's owner is the user named in the token's claims
StoreOwnerMatches(tok) ==
    \A rt \in refreshTokens : rt.token = tok => rt.userID = tok.uid

\* C1: a refresh request passes validation, and so can go on to issue and
\* persist a new pair, only if the presented token is an acceptable refresh
\* JWT, has a valid store record and is owned by the user in its claims; only a
\* request that passed validation revokes, persists or succeeds; a request that
\* fails validation leaves the store as it was.
RefreshOnlyIfAllChecksPass ==
    [][ /\ \A r \in Reqs :
            (reqs[r].pc = "idle" /\ reqs'[r].pc # "idle") =>
                /\ reqs'[r].pc = "revoke"
                /\ JwtAcceptableAsRefresh(reqs'[r].tok, now)
                /\ StoreRecordValid(reqs'[r].tok, now)
                /\ StoreOwnerMatches(reqs'[r].tok)
                /\ refreshTokens' = refreshTokens
        /\ (resp'.op = "RefreshToken" /\ refreshTokens' # refreshTokens) =>
                \E r \in Reqs : /\ reqs[r].pc \in {"revoke", "create"}
                                /\ reqs'[r] # reqs[r]
        /\ (resp'.op = "RefreshToken" /\ resp'.err = ErrNone) =>
                \E r \in Reqs : /\ reqs[r].pc = "create"
                                /\ reqs[r].tok = resp'.in
                                /\ reqs'[r].pc = "idle"
        /\ (resp'.op = "RefreshToken" /\ reqs' = reqs) =>
                /\ resp'.err \notin {ErrNone, "pending"}
                /\ refreshTokens' = refreshTokens
                /\ refreshLog' = refreshLog
      ]_vars

\* C1 witness: a refresh has gone through and returned a new pair.
RefreshSucceeded ==
    /\ resp.op = "RefreshToken"
    /\ resp.err = ErrNone
    /\ \E e \in refreshLog : e[1] = resp.in

\* C2: no refresh token is exchanged successfully more than once.
AtMostOneRefreshPerToken ==
    \A e1, e2 \in refreshLog : e1[1] = e2[1] => e1 = e2

\* C3: at the step where a refresh returns success the presented token's
\* record is revoked and the new refresh token has an unrevoked, unexpired
\* record of the same owner; from then on the store rejects the old token.
RotationRevokesOldAndPersistsNew ==
    /\ [][ \A r \in Reqs :
              (reqs[r].pc = "create" /\ reqs'[r].pc = "idle" /\ resp'.err = ErrNone) =>
                  /\ \E old \in refreshTokens' :
                        /\ old.token = reqs[r].tok
                        /\ old.revokedAt # Null
                        /\ \E new \in refreshTokens' :
                              /\ new.token = reqs[r].newRefresh
                              /\ new.userID = old.userID
                              /\ new.revokedAt = Null
                              /\ now' < new.expiresAt
                  /\ reqs[r].newRefresh # reqs[r].tok
          ]_vars
    /\ [](\A e \in refreshLog :
              /\ \E old \in refreshTokens : old.token = e[1] /\ old.revokedAt # Null
              /\ ValidateRefreshToken(refreshTokens, e[1], now).err # ErrNone)

\* C3 witness: after a rotation the new token's record is valid, the old one
\* is revoked.
RotatedPairInStore ==
    \E e \in refreshLog :
        /\ \E old \in refreshTokens : old.token = e[1] /\ old.revokedAt # Null
        /\ \E new \in refreshTokens : new.token = e[2] /\ IsValid(new, now)
        /\ resp.op = "RefreshToken" /\ resp.err = ErrNone /\ resp.in = e[1]

\* C4: a refresh attempt that presents a token revoked by Logout, while the
\* token's JWT is still acceptable, is answered with TokenRevoked and never
\* enters the rotation.
LogoutRevokedTokenIsRejected ==
    [][ \A tok \in logoutRevoked :
          JwtAcceptableAsRefresh(tok, now) =>
              /\ \A r \in Reqs :
                    ~(reqs[r].pc = "idle" /\ reqs'[r].pc # "idle" /\ reqs'[r].tok = tok)
              /\ (resp'.op = "RefreshToken" /\ resp'.in = tok /\ reqs' = reqs) =>
                    resp'.err = ErrTokenRevoked
      ]_vars

\* C4 witness: such an attempt has just been answered.
LogoutRevokedTokenPresented ==
    /\ resp.op = "RefreshToken"
    /\ resp.err = ErrTokenRevoked
    /\ resp.in \in logoutRevoked
    /\ JwtAcceptableAsRefresh(resp.in, now)

\* C5: a successful Logout of user u leaves every record of u revoked, leaves
\* every record of another user untouched, and adds or removes no record.
LogoutRevokesAllOfUserOnly ==
    [][ (resp'.op = "Logout" /\ resp'.err = ErrNone) =>
          /\ \A rt \in refreshTokens :
                IF rt.userID = resp'.in.uid
                THEN \E rt2 \in refreshTokens' :
                        /\ rt2.revokedAt # Null
                        /\ [rt2 EXCEPT !.revokedAt = Null] = [rt EXCEPT !.revokedAt = Null]
                ELSE rt \in refreshTokens'
          /\ {rt.token : rt \in refreshTokens'} = {rt.token : rt \in refreshTokens}
      ]_vars

\* C5 witness: after a Logout two sessions of the user are revoked while
\* another user's session is still valid.
LogoutRevokedSeveralSessions ==
    /\ resp.op = "Logout"
    /\ resp.err = ErrNone
    /\ Cardinality({rt \in refreshTokens : rt.userID = resp.in.uid}) >= 2
    /\ \A rt \in refreshTokens : rt.userID = resp.in.uid => rt.revokedAt = now
    /\ \E rt \in refreshTokens : rt.userID # resp.in.uid /\ IsValid(rt, now)

----------------------------------------------------------------------------
(* Accounts: registration, email verification, Google sign-in and password  *)
(* login against the users table these operations build.                    *)

\* Lifetime of an email verification token (24 hours), in clock ticks
VerificationTTL == 2

ErrUserNotFound == "USER_NOT_FOUND"
ErrUserAlreadyExists == "USER_ALREADY_EXISTS"
ErrInvalidVerificationToken == "INVALID_VERIFICATION_TOKEN"
ErrVerificationTokenExpired == "VERIFICATION_TOKEN_EXPIRED"
ErrUserExists == "USER_EXISTS"
ErrHashPassword == "failed to hash password"
ErrGenerateToken == "failed to generate token"
ErrCreateUser == "failed to create user"
ErrSendEmail == "failed to send email"

\* What the collaborators of one Register call do: everything works, bcrypt
\* fails, crypto/rand fails, the insert fails, or the mail cannot be sent.
RegisterOutcomes == {"ok", "hashFail", "randFail", "createFail", "emailFail"}

GoogleProvider == "google"

\* The identities Google can report after the code exchange: {ID, Email}
GoogleUserInfos == {[ID |-> "g1", Email |-> "a@x.com"], [ID |-> "g2", Email |-> "b@x.com"]}

\* uuid.New(): an id no row of the table carries
NewID(table) == CHOOSE id \in UserIDs : \A u \in table : u.id # id

\* generateToken of the account use case: 32 random bytes, base64; the n-th
\* draw differs from every earlier one
generateRandomToken(n) == "tok" \o ToString(n)

\* An OAuth user created without its external id
NewOAuthUserWithoutID(id, email, provider, oauthID) ==
    [NoUser EXCEPT !.id = id, !.email = email, !.oauthProvider = provider]

\* entity.NewOAuthUser
NewOAuthUser(id, email, provider, oauthID) ==
    [NoUser EXCEPT !.id = id, !.email = email, !.oauthProvider = provider,
                   !.oauthID = oauthID]

\* userRepository.GetByOAuthID
GetByOAuthID(table, provider, oauthID) ==
    LET rows == {u \in table : u.oauthProvider = provider /\ u.oauthID = oauthID}
    IN IF rows # {} THEN [err |-> ErrNone, user |-> CHOOSE u \in rows : TRUE]
       ELSE [err |-> ErrUserNotFound, user |-> NoUser]

\* userRepository.GetByVerificationToken
GetByVerificationToken(table, token) ==
    LET rows == {u \in table : u.verificationToken = token}
    IN IF rows # {} THEN [err |-> ErrNone, user |-> CHOOSE u \in rows : TRUE]
       ELSE [err |-> ErrUserNotFound, user |-> NoUser]

\* userRepository.Create
CreateUser(table, user) == table \cup {user}

\* userRepository.Update: the row with the user's id is saved
UpdateUser(table, user) == {u \in table : u.id # user.id} \cup {user}

\* The result of a use case that touches the users table: the error returned,
\* the entity handed to userRepo.Create / userRepo.Update (NoUser when the
\* store is not written) and the table after the call.
Unchanged(err, table) == [err |-> err, saved |-> NoUser, table |-> table]
Created(err, table, user) == [err |-> err, saved |-> user, table |-> CreateUser(table, user)]
Updated(err, table, user) == [err |-> err, saved |-> user, table |-> UpdateUser(table, user)]

\* A verification email step of Register whose failure fails the call
SendVerificationEmailFailureReturned(outcome) ==
    IF outcome = "emailFail" THEN ErrSendEmail ELSE ErrNone

\* The verification email step of Register: a failed send is printed to the
\* log and the call goes on to return the user
SendVerificationEmailAtRegister(outcome) == ErrNone

\* Register without the lookup of the email
RegisterWithoutExistenceCheck(table, email, password, token, t, outcome) ==
    LET user == [NewUser(NewID(table), email, GenerateFromPassword(password))
                   EXCEPT !.verificationToken = token,
                          !.verificationTokenExpiresAt = t + VerificationTTL]
    IN IF outcome = "hashFail" THEN Unchanged(ErrHashPassword, table)
       ELSE IF outcome = "randFail" THEN Unchanged(ErrGenerateToken, table)
       ELSE IF outcome = "createFail" THEN Unchanged(ErrCreateUser, table)
       ELSE IF UserIDs \ {u.id : u \in table} # {}
            THEN Created(ErrNone, table, user)
            ELSE Unchanged(ErrCreateUser, table)

\* authUseCase.Register; a failed email send is logged only
Register(table, email, password, token, t, outcome) ==
    LET user == [NewUser(NewID(table), email, GenerateFromPassword(password))
                   EXCEPT !.verificationToken = token,
                          !.verificationTokenExpiresAt = t + VerificationTTL]
    IN IF GetByEmail(table, email).err = ErrNone
       THEN Unchanged(ErrUserAlreadyExists, table)
       ELSE IF outcome = "hashFail" THEN Unchanged(ErrHashPassword, table)
       ELSE IF outcome = "randFail" THEN Unchanged(ErrGenerateToken, table)
       ELSE IF outcome = "createFail" THEN Unchanged(ErrCreateUser, table)
       ELSE Created(SendVerificationEmailAtRegister(outcome), table, user)

\* userUseCase.Register: no verification token is generated and no email sent
UserUseCaseRegister(table, email, password, outcome) ==
    LET user == NewUser(NewID(table), email, GenerateFromPassword(password))
    IN IF GetByEmail(table, email).err = ErrNone
       THEN Unchanged(ErrUserExists, table)
       ELSE IF outcome = "hashFail" THEN Unchanged(ErrHashPassword, table)
       ELSE IF outcome = "createFail" THEN Unchanged(ErrCreateUser, table)
       ELSE Created(ErrNone, table, user)

\* VerifyEmail that leaves the verification token in place
VerifyEmailKeepsToken(table, token, t) ==
    LET found == GetByVerificationToken(table, token) IN
    IF found.err # ErrNone
    THEN Unchanged(ErrInvalidVerificationToken, table)
    ELSE IF t > found.user.verificationTokenExpiresAt
    THEN Unchanged(ErrVerificationTokenExpired, table)
    ELSE IF found.user.emailVerified
    THEN Unchanged(ErrNone, table)
    ELSE Updated(ErrNone, table, [found.user EXCEPT !.emailVerified = TRUE])

\* authUseCase.VerifyEmail
VerifyEmail(table, token, t) ==
    LET found == GetByVerificationToken(table, token) IN
    IF found.err # ErrNone
    THEN Unchanged(ErrInvalidVerificationToken, table)
    ELSE IF t > found.user.verificationTokenExpiresAt
    THEN Unchanged(ErrVerificationTokenExpired, table)
    ELSE IF found.user.emailVerified
    THEN Unchanged(ErrNone, table)
    ELSE Updated(ErrNone, table, [found.user EXCEPT
                        !.emailVerified = TRUE,
                        !.verificationToken = "",
                        !.verificationTokenExpiresAt = Null])

\* A callback that saves the user again when the provider and id match
HandleGoogleCallbackSavesOnMatch(table, userInfo) ==
    LET byOAuth == GetByOAuthID(table, GoogleProvider, userInfo.ID)
        byEmail == GetByEmail(table, userInfo.Email)
        linked == [byEmail.user EXCEPT !.oauthProvider = GoogleProvider,
                                       !.oauthID = userInfo.ID]
        newUser == NewOAuthUser(NewID(table), userInfo.Email, GoogleProvider, userInfo.ID)
    IN IF byOAuth.err = ErrNone
       THEN [user |-> byOAuth.user, saved |-> byOAuth.user,
             table |-> UpdateUser(table, byOAuth.user)]
       ELSE IF byEmail.err = ErrNone
       THEN [user |-> linked, saved |-> linked, table |-> UpdateUser(table, linked)]
       ELSE [user |-> newUser, saved |-> newUser, table |-> CreateUser(table, newUser)]

\* oauthUseCase.HandleGoogleCallback, from the user info Google returned
HandleGoogleCallback(table, userInfo) ==
    LET byOAuth == GetByOAuthID(table, GoogleProvider, userInfo.ID)
        byEmail == GetByEmail(table, userInfo.Email)
        linked == [byEmail.user EXCEPT !.oauthProvider = GoogleProvider,
                                       !.oauthID = userInfo.ID]
        newUser == NewOAuthUser(NewID(table), userInfo.Email, GoogleProvider, userInfo.ID)
    IN IF byOAuth.err = ErrNone
       THEN [user |-> byOAuth.user, saved |-> NoUser, table |-> table]
       ELSE IF byEmail.err = ErrNone
       THEN [user |-> linked, saved |-> linked, table |-> UpdateUser(table, linked)]
       ELSE [user |-> newUser, saved |-> newUser, table |-> CreateUser(table, newUser)]

\* AuthHandler.Register
AuthHandlerRegister(email, password, outcome) ==
    LET r == Register(users, email, password, generateRandomToken(tokenSeq + 1), now, outcome)
    IN /\ users' = r.table
       /\ tokenSeq' = IF r.err = ErrNone THEN tokenSeq + 1 ELSE tokenSeq
       /\ resp' = Response("Register", r.err, [email |-> email, password |-> password])
       /\ UNCHANGED <<now, refreshTokens, reqs, refreshLog, logoutRevoked, calls>>

\* AuthHandler.VerifyEmail
AuthHandlerVerifyEmail(token) ==
    LET r == VerifyEmail(users, token, now)
    IN /\ users' = r.table
       /\ resp' = Response("VerifyEmail", r.err, [token |-> token])
       /\ UNCHANGED <<now, refreshTokens, reqs, refreshLog, logoutRevoked, tokenSeq, calls>>

\* OAuthHandler.HandleGoogleCallback: the account is found, linked or created,
\* then the token pair is generated and the refresh token persisted.
OAuthHandlerHandleGoogleCallback(userInfo) ==
    LET r == HandleGoogleCallback(users, userInfo)
        refreshToken == GenerateRefreshToken(r.user.id, now)
        expiresAt == now + GetRefreshTokenExpiration
        c == CreateRefreshToken(refreshTokens, r.user.id, refreshToken, expiresAt, now)
    IN /\ Cardinality(refreshTokens) < MaxSessions
       /\ users' = r.table
       /\ IF c.err # ErrNone
          THEN /\ resp' = Response("HandleGoogleCallback", c.err, userInfo)
               /\ UNCHANGED refreshTokens
          ELSE /\ refreshTokens' = c.store
               /\ resp' = Response("HandleGoogleCallback", ErrNone, userInfo)
       /\ UNCHANGED <<now, reqs, refreshLog, logoutRevoked, tokenSeq, calls>>

\* Authenticate that returns the account found by email without comparing the
\* password
AuthenticateWithoutPasswordCheck(table, email, password) ==
    LET found == GetByEmail(table, email) IN
    IF found.err # ErrNone
    THEN [err |-> ErrInvalidCredentials, user |-> NoUser]
    ELSE [err |-> ErrNone, user |-> found.user]

\* userUseCase.Authenticate
Authenticate(table, email, password) ==
    LET found == GetByEmail(table, email) IN
    IF found.err # ErrNone
    THEN [err |-> ErrInvalidCredentials, user |-> NoUser]
    ELSE IF ~CompareHashAndPassword(found.user.password, password)
    THEN [err |-> ErrInvalidCredentials, user |-> NoUser]
    ELSE [err |-> ErrNone, user |-> found.user]

\* UserHandler.Login (routed at /auth/login): userUseCase.Authenticate, then
\* the token pair is generated and the refresh token persisted.
UserHandlerLogin(email, password) ==
    LET r == Authenticate(users, email, password)
        in == [email |-> email, password |-> password]
        refreshToken == GenerateRefreshToken(r.user.id, now)
        expiresAt == now + GetRefreshTokenExpiration
        c == CreateRefreshToken(refreshTokens, r.user.id, refreshToken, expiresAt, now)
    IN /\ Cardinality(refreshTokens) < MaxSessions
       /\ IF r.err # ErrNone
          THEN /\ resp' = Response("UserHandler.Login", r.err, in)
               /\ UNCHANGED refreshTokens
          ELSE IF c.err # ErrNone
          THEN /\ resp' = Response("UserHandler.Login", c.err, in)
               /\ UNCHANGED refreshTokens
          ELSE /\ refreshTokens' = c.store
               /\ resp' = Response("UserHandler.Login", ErrNone, in)
       /\ UNCHANGED <<now, users, reqs, refreshLog, logoutRevoked, tokenSeq, calls>>

\* The verification tokens a client can send: the ones mailed out so far and
\* one that was never issued.
PresentableVerificationTokens ==
    {generateRandomToken(n) : n \in 1..tokenSeq} \cup {"bogus"}

InitAccount ==
    /\ now = 0
    /\ users = {}
    /\ refreshTokens = {}
    /\ reqs = [r \in Reqs |-> IdleReq]
    /\ resp = Response("", ErrNone, NoToken)
    /\ refreshLog = {}
    /\ logoutRevoked = {}
    /\ tokenSeq = 0
    /\ calls = [r \in Reqs |-> IdleCall]

NextAccount ==
    \/ \E e \in Emails, p \in Passwords, outcome \in RegisterOutcomes :
          AuthHandlerRegister(e, p, outcome)
    \/ \E token \in PresentableVerificationTokens : AuthHandlerVerifyEmail(token)
    \/ \E userInfo \in GoogleUserInfos : OAuthHandlerHandleGoogleCallback(userInfo)
    \/ \E e \in Emails, p \in Passwords : AuthHandlerLogin(e, p)
    \/ \E e \in Emails, p \in Passwords : UserHandlerLogin(e, p)
    \/ Tick

SpecAccount == InitAccount /\ [][NextAccount]_vars

\* The account a login request names, and whether the request's password
\* verifies against its stored hash.
LoginEmailKnown == \E u \in users : u.email = resp.in.email

LoginPasswordVerifies ==
    \E u \in users : u.email = resp.in.email
                       /\ CompareHashAndPassword(u.password, resp.in.password)

\* C9: a login with an unknown email and a login with a known email whose
\* password does not verify both end in InvalidCredentials, whatever the state
\* of the known account (verified or not, OAuth-linked or not).
LoginFailuresAreIndistinguishable ==
    (resp.op = "Login" /\ (~LoginEmailKnown \/ ~LoginPasswordVerifies))
        => resp.err = ErrInvalidCredentials

\* C10: whenever a login ends in EmailNotVerified, the supplied password
\* verifies against the stored hash of the account.
EmailNotVerifiedOnlyAfterCredentialMatch ==
    (resp.op = "Login" /\ resp.err = ErrEmailNotVerified) => LoginPasswordVerifies

----------------------------------------------------------------------------
(* Account lifecycle use cases: resend of the verification mail, password   *)
(* reset, profile update, and the older password authentication.            *)

\* Cap on the number of random tokens drawn in one behaviour
MaxTokens == 3

\* Lifetime of a password reset token (1 hour), in clock ticks
ResetTTL == 1

ErrInvalidResetToken == "INVALID_RESET_TOKEN"
ErrResetTokenExpired == "RESET_TOKEN_EXPIRED"
ErrAlreadyVerified == "email already verified"
ErrUpdateUser == "failed to update user"

\* What the collaborators of one call do: everything works, crypto/rand
\* fails, the store update fails, or the mail cannot be sent.
Outcomes == {"ok", "randFail", "updateFail", "emailFail"}

\* userRepository.GetByID
GetByID(table, id) ==
    IF \E u \in table : u.id = id
    THEN [err |-> ErrNone, user |-> CHOOSE u \in table : u.id = id]
    ELSE [err |-> ErrUserNotFound, user |-> NoUser]

\* A reset-token lookup that returns a row with a pending token whatever
\* token is presented
GetByResetPasswordTokenAnyPending(table, token) ==
    LET rows == {u \in table : u.resetPasswordToken = token \/ u.resetPasswordToken # ""}
    IN IF rows # {} THEN [err |-> ErrNone, user |-> CHOOSE u \in rows : TRUE]
       ELSE [err |-> ErrUserNotFound, user |-> NoUser]

\* userRepository.GetByResetPasswordToken
GetByResetPasswordToken(table, token) ==
    LET rows == {u \in table : u.resetPasswordToken = token}
    IN IF rows # {} THEN [err |-> ErrNone, user |-> CHOOSE u \in rows : TRUE]
       ELSE [err |-> ErrUserNotFound, user |-> NoUser]

\* ResendVerificationEmail that extends the window of the pending token
\* instead of replacing it
ResendVerificationEmailKeepsOldToken(table, email, token, t, outcome) ==
    LET found == GetByEmail(table, email)
        user == [found.user EXCEPT !.verificationTokenExpiresAt = t + VerificationTTL]
    IN IF found.err # ErrNone THEN Unchanged(ErrUserNotFound, table)
       ELSE IF found.user.emailVerified THEN Unchanged(ErrAlreadyVerified, table)
       ELSE IF outcome = "randFail" THEN Unchanged(ErrGenerateToken, table)
       ELSE IF outcome = "updateFail" THEN Unchanged(ErrUpdateUser, table)
       ELSE IF outcome = "emailFail" THEN Updated(ErrSendEmail, table, user)
       ELSE Updated(ErrNone, table, user)

\* authUseCase.ResendVerificationEmail
ResendVerificationEmail(table, email, token, t, outcome) ==
    LET found == GetByEmail(table, email)
        user == [found.user EXCEPT !.verificationToken = token,
                                   !.verificationTokenExpiresAt = t + VerificationTTL]
    IN IF found.err # ErrNone THEN Unchanged(ErrUserNotFound, table)
       ELSE IF found.user.emailVerified THEN Unchanged(ErrAlreadyVerified, table)
       ELSE IF outcome = "randFail" THEN Unchanged(ErrGenerateToken, table)
       ELSE IF outcome = "updateFail" THEN Unchanged(ErrUpdateUser, table)
       ELSE IF outcome = "emailFail" THEN Updated(ErrSendEmail, table, user)
       ELSE Updated(ErrNone, table, user)

\* authUseCase.ForgotPassword
ForgotPassword(table, email, token, t, outcome) ==
    LET found == GetByEmail(table, email)
        user == [found.user EXCEPT !.resetPasswordToken = token,
                                   !.resetPasswordTokenExpiresAt = t + ResetTTL]
    IN IF found.err # ErrNone THEN Unchanged(ErrNone, table)
       ELSE IF IsOAuthUser(found.user) THEN Unchanged(ErrNone, table)
       ELSE IF outcome = "randFail" THEN Unchanged(ErrGenerateToken, table)
       ELSE IF outcome = "updateFail" THEN Unchanged(ErrUpdateUser, table)
       ELSE IF outcome = "emailFail" THEN Updated(ErrSendEmail, table, user)
       ELSE Updated(ErrNone, table, user)

\* ResetPassword that replaces the hash but leaves the reset token in place
ResetPasswordKeepsToken(table, token, newPassword, t) ==
    LET found == GetByResetPasswordToken(table, token) IN
    IF found.err # ErrNone THEN Unchanged(ErrInvalidResetToken, table)
    ELSE IF t > found.user.resetPasswordTokenExpiresAt
    THEN Unchanged(ErrResetTokenExpired, table)
    ELSE Updated(ErrNone, table, [found.user EXCEPT
                    !.password = GenerateFromPassword(newPassword)])

\* authUseCase.ResetPassword
ResetPassword(table, token, newPassword, t) ==
    LET found == GetByResetPasswordToken(table, token) IN
    IF found.err # ErrNone THEN Unchanged(ErrInvalidResetToken, table)
    ELSE IF t > found.user.resetPasswordTokenExpiresAt
    THEN Unchanged(ErrResetTokenExpired, table)
    ELSE Updated(ErrNone, table, [found.user EXCEPT
                    !.password = GenerateFromPassword(newPassword),
                    !.resetPasswordToken = "",
                    !.resetPasswordTokenExpiresAt = Null])

\* userUseCase.Update: name and phone are replaced (they are not part of the
\* model) and the whole row is saved.
UserUseCaseUpdate(table, id) ==
    LET found == GetByID(table, id) IN
    IF found.err # ErrNone THEN Unchanged(found.err, table)
    ELSE Updated(ErrNone, table, found.user)

----------------------------------------------------------------------------
(* The account use cases called directly, one call at a time.               *)

\* The token strings a caller can pass: every token mailed out so far, one
\* that was never issued, and the empty string.
PresentableAccountTokens ==
    {generateRandomToken(n) : n \in 1..tokenSeq} \cup {"bogus", ""}

\* The emails that register with a password; the other email is known to the
\* service only through Google sign-in.
RegisteringEmails == {"a@x.com"}

CallRegister(email, password, outcome) ==
    LET r == Register(users, email, password, generateRandomToken(tokenSeq + 1), now, outcome)
    IN /\ tokenSeq < MaxTokens
       /\ users' = r.table
       /\ tokenSeq' = IF r.saved # NoUser THEN tokenSeq + 1 ELSE tokenSeq
       /\ resp' = Response("Register", r.err,
                           [email |-> email, password |-> password, outcome |-> outcome])
       /\ UNCHANGED <<now, refreshTokens, reqs, refreshLog, logoutRevoked, calls>>

CallLogin(email, password) ==
    LET r == Login(users, email, password)
    IN /\ resp' = Response("Login", r.err, [email |-> email, password |-> password])
       /\ UNCHANGED <<now, users, refreshTokens, reqs, refreshLog, logoutRevoked, tokenSeq, calls>>

CallVerifyEmail(token) ==
    LET r == VerifyEmail(users, token, now)
    IN /\ users' = r.table
       /\ resp' = Response("VerifyEmail", r.err, [token |-> token])
       /\ UNCHANGED <<now, refreshTokens, reqs, refreshLog, logoutRevoked, tokenSeq, calls>>

CallResendVerificationEmail(email, outcome) ==
    LET r == ResendVerificationEmail(users, email, generateRandomToken(tokenSeq + 1),
                                     now, outcome)
    IN /\ tokenSeq < MaxTokens
       /\ users' = r.table
       /\ tokenSeq' = IF r.saved # NoUser THEN tokenSeq + 1 ELSE tokenSeq
       /\ resp' = Response("ResendVerificationEmail", r.err, [email |-> email])
       /\ UNCHANGED <<now, refreshTokens, reqs, refreshLog, logoutRevoked, calls>>

CallForgotPassword(email, outcome) ==
    LET r == ForgotPassword(users, email, generateRandomToken(tokenSeq + 1), now, outcome)
    IN /\ tokenSeq < MaxTokens
       /\ users' = r.table
       /\ tokenSeq' = IF r.saved # NoUser THEN tokenSeq + 1 ELSE tokenSeq
       /\ resp' = Response("ForgotPassword", r.err, [email |-> email])
       /\ UNCHANGED <<now, refreshTokens, reqs, refreshLog, logoutRevoked, calls>>

\* A password reset that also ends the sessions of the account
CallResetPasswordRevokingSessions(token, newPassword) ==
    LET r == ResetPassword(users, token, newPassword, now)
    IN /\ users' = r.table
       /\ refreshTokens' = IF r.saved # NoUser
                           THEN RevokeAllUserTokens(refreshTokens, r.saved.id, now)
                           ELSE refreshTokens
       /\ resp' = Response("ResetPassword", r.err,
                           [token |-> token, newPassword |-> newPassword])
       /\ UNCHANGED <<now, reqs, refreshLog, logoutRevoked, tokenSeq, calls>>

CallResetPassword(token, newPassword) ==
    LET r == ResetPassword(users, token, newPassword, now)
    IN /\ users' = r.table
       /\ resp' = Response("ResetPassword", r.err,
                           [token |-> token, newPassword |-> newPassword])
       /\ UNCHANGED <<now, refreshTokens, reqs, refreshLog, logoutRevoked, tokenSeq, calls>>

\* The response names the user the call returned and whether the call wrote
\* to the user store (Create or Update)
CallHandleGoogleCallback(userInfo) ==
    LET r == HandleGoogleCallback(users, userInfo)
    IN /\ users' = r.table
       /\ resp' = Response("HandleGoogleCallback", ErrNone,
                           [ID |-> userInfo.ID, Email |-> userInfo.Email,
                            user |-> r.user.id, wrote |-> r.saved # NoUser])
       /\ UNCHANGED <<now, refreshTokens, reqs, refreshLog, logoutRevoked, tokenSeq, calls>>

InitUseCase ==
    /\ now = 0
    /\ users = {}
    /\ refreshTokens = {}
    /\ reqs = [r \in Reqs |-> IdleReq]
    /\ resp = Response("", ErrNone, NoToken)
    /\ refreshLog = {}
    /\ logoutRevoked = {}
    /\ tokenSeq = 0
    /\ calls = [r \in Reqs |-> IdleCall]

\* Registration, verification and login
NextVerification ==
    \/ \E e \in RegisteringEmails, p \in Passwords, outcome \in RegisterOutcomes :
          CallRegister(e, p, outcome)
    \/ \E e \in Emails, p \in Passwords : CallLogin(e, p)
    \/ \E token \in PresentableAccountTokens : CallVerifyEmail(token)
    \/ \E e \in Emails, outcome \in Outcomes : CallResendVerificationEmail(e, outcome)
    \/ \E userInfo \in GoogleUserInfos : CallHandleGoogleCallback(userInfo)
    \/ Tick

SpecVerification == InitUseCase /\ [][NextVerification]_vars

\* Registration and password reset
NextReset ==
    \/ \E e \in RegisteringEmails, p \in Passwords, outcome \in RegisterOutcomes :
          CallRegister(e, p, outcome)
    \/ \E e \in Emails, outcome \in Outcomes : CallForgotPassword(e, outcome)
    \/ \E token \in PresentableAccountTokens, p \in Passwords : CallResetPassword(token, p)
    \/ \E userInfo \in GoogleUserInfos : CallHandleGoogleCallback(userInfo)
    \/ Tick

SpecReset == InitUseCase /\ [][NextReset]_vars

----------------------------------------------------------------------------
(* Properties of login, verification and password reset *)

\* C11: Login answers with the OAuth-account error exactly for accounts
\* without a password hash (OAuth-only), and an email-verified account with
\* both a password hash and a linked OAuth identity logs in with its correct
\* password.
OAuthErrorExactlyForOAuthOnlyAccounts ==
    resp.op = "Login" =>
        \A u \in users : u.email = resp.in.email =>
            /\ resp.err = ErrOAuthAccount <=> u.password = ""
            /\ (/\ u.emailVerified
                /\ IsOAuthUser(u)
                /\ CompareHashAndPassword(u.password, resp.in.password))
                   => resp.err = ErrNone

\* C12: no password-login handler issues a token pair, or persists a
\* refresh-token record, for an account whose email_verified flag is false.
NoTokenPairForUnverifiedAccount ==
    (resp.op \in {"Login", "UserHandler.Login"} /\ resp.err = ErrNone) =>
        \E u \in users : u.email = resp.in.email /\ u.emailVerified

\* The account with the given email in a users table (NoUser if unknown)
AccountOf(table, email) == GetByEmail(table, email).user

\* A password account that no OAuth identity is linked to, named by a call
\* whose password verifies against its hash
FreshAccountWithCorrectPassword(u, password) ==
    /\ u # NoUser
    /\ ~IsOAuthUser(u)
    /\ CompareHashAndPassword(u.password, password)

\* C13: for a registered password account: Register succeeds with
\* email_verified = false; Login with the correct password fails with
\* EmailNotVerified while the account is unverified; VerifyEmail with the
\* issued, unexpired token succeeds and verifies the account; Login with the
\* correct password then succeeds and returns the user with
\* email_verified = true.
RegisterVerifyLoginScenario ==
    [][ /\ (resp'.op = "Register" /\ resp'.err = ErrNone) =>
              LET u == AccountOf(users', resp'.in.email)
              IN /\ AccountOf(users, resp'.in.email) = NoUser
                 /\ FreshAccountWithCorrectPassword(u, resp'.in.password)
                 /\ ~u.emailVerified
                 /\ u.verificationToken = generateRandomToken(tokenSeq')
        /\ resp'.op = "Login" =>
              LET u == AccountOf(users, resp'.in.email)
              IN FreshAccountWithCorrectPassword(u, resp'.in.password) =>
                    IF u.emailVerified
                    THEN /\ resp'.err = ErrNone
                         /\ Login(users, resp'.in.email, resp'.in.password).user = u
                    ELSE resp'.err = ErrEmailNotVerified
        /\ resp'.op = "VerifyEmail" =>
              \A u \in users :
                  (/\ u.verificationToken = resp'.in.token
                   /\ resp'.in.token # ""
                   /\ ~u.emailVerified
                   /\ now <= u.verificationTokenExpiresAt)
                  => /\ resp'.err = ErrNone
                     /\ AccountOf(users', u.email).emailVerified
      ]_vars

\* C13 witness: a registered account that was verified has logged in with its
\* password.
VerifiedAccountLoggedIn ==
    /\ resp.op = "Login"
    /\ resp.err = ErrNone
    /\ AccountOf(users, resp.in.email).emailVerified
    /\ ~IsOAuthUser(AccountOf(users, resp.in.email))

\* The tokens drawn so far, and whether a row holds a token for verification
IssuedTokens == {generateRandomToken(n) : n \in 1..tokenSeq}

HeldForVerification(table, token) == \E u \in table : u.verificationToken = token

\* C14: VerifyEmail with a token that an unverified user holds and that is not
\* past its stored expiry sets email_verified and clears the token and its
\* expiry; a token no row holds any more is never held again, and VerifyEmail
\* with it fails with InvalidVerificationToken and changes nothing.
VerifyEmailConsumesToken ==
    [][ /\ resp'.op = "VerifyEmail" =>
              \A u \in users :
                  (/\ u.verificationToken = resp'.in.token
                   /\ resp'.in.token # ""
                   /\ ~u.emailVerified
                   /\ now <= u.verificationTokenExpiresAt)
                  => LET v == AccountOf(users', u.email)
                     IN /\ resp'.err = ErrNone
                        /\ v = [u EXCEPT !.emailVerified = TRUE,
                                         !.verificationToken = "",
                                         !.verificationTokenExpiresAt = Null]
                        /\ ~HeldForVerification(users', resp'.in.token)
        /\ \A token \in IssuedTokens :
              ~HeldForVerification(users, token) => ~HeldForVerification(users', token)
        /\ (/\ resp'.op = "VerifyEmail"
            /\ resp'.in.token \in IssuedTokens
            /\ ~HeldForVerification(users, resp'.in.token))
           => /\ resp'.err = ErrInvalidVerificationToken
              /\ users' = users
      ]_vars

\* C14 witness: the only token ever issued verified its account and was then
\* presented again.
ConsumedTokenPresentedAgain ==
    /\ resp.op = "VerifyEmail"
    /\ tokenSeq = 1
    /\ resp.in.token \in IssuedTokens
    /\ resp.err = ErrInvalidVerificationToken
    /\ \E u \in users : u.emailVerified /\ ~IsOAuthUser(u)

\* C15: VerifyEmail called with a token held by an account that is already
\* verified succeeds without error and does not modify any user record.
VerifyEmailOnVerifiedAccountIsNoOp ==
    [][ resp'.op = "VerifyEmail" =>
            \A u \in users :
                (u.verificationToken = resp'.in.token /\ u.emailVerified)
                => (resp'.err = ErrNone /\ users' = users)
      ]_vars

----------------------------------------------------------------------------
(* Overlapping calls: every use case that updates a user reads the row,     *)
(* changes the entity in memory and later saves the whole row               *)
(* (userRepository.Update is a gorm Save of all columns).  Other calls can  *)
(* run between the read and the save.  The window between a read and its   *)
(* save is shorter than one clock tick, so the clock stands still here.     *)

\* The read half of a call: the lookups and checks run against the table as
\* it is now, and the entity to save is kept by the call.  The call takes the
\* first free slot (slots are interchangeable).
BeginCall(r, op, res, in) ==
    /\ calls[r].pc = "idle"
    /\ \A q \in Reqs : q < r => calls[q].pc # "idle"
    /\ calls' = [calls EXCEPT ![r] = [pc |-> "save", op |-> op, err |-> res.err,
                                      saved |-> res.saved, in |-> in]]
    /\ resp' = Response(op, "pending", NoToken)
    /\ UNCHANGED <<now, users, refreshTokens, reqs, refreshLog, logoutRevoked>>

BeginVerifyEmail(r, token) ==
    /\ BeginCall(r, "VerifyEmail", VerifyEmail(users, token, now), [token |-> token])
    /\ UNCHANGED tokenSeq

BeginResendVerificationEmail(r, email, outcome) ==
    LET res == ResendVerificationEmail(users, email, generateRandomToken(tokenSeq + 1),
                                       now, outcome)
    IN /\ tokenSeq < MaxTokens
       /\ BeginCall(r, "ResendVerificationEmail", res, [email |-> email])
       /\ tokenSeq' = IF res.saved # NoUser THEN tokenSeq + 1 ELSE tokenSeq

BeginForgotPassword(r, email, outcome) ==
    LET res == ForgotPassword(users, email, generateRandomToken(tokenSeq + 1), now, outcome)
    IN /\ tokenSeq < MaxTokens
       /\ BeginCall(r, "ForgotPassword", res, [email |-> email])
       /\ tokenSeq' = IF res.saved # NoUser THEN tokenSeq + 1 ELSE tokenSeq

BeginResetPassword(r, token, newPassword) ==
    /\ BeginCall(r, "ResetPassword", ResetPassword(users, token, newPassword, now),
                 [token |-> token, newPassword |-> newPassword])
    /\ UNCHANGED tokenSeq

BeginUpdate(r, id) ==
    /\ BeginCall(r, "Update", UserUseCaseUpdate(users, id), [id |-> id])
    /\ UNCHANGED tokenSeq

\* OAuth linking: the callback for an email that already has an account
BeginHandleGoogleCallback(r, userInfo) ==
    LET res == HandleGoogleCallback(users, userInfo)
    IN /\ GetByEmail(users, userInfo.Email).err = ErrNone
       /\ BeginCall(r, "HandleGoogleCallback", [err |-> ErrNone, saved |-> res.saved],
                    userInfo)
       /\ UNCHANGED tokenSeq

\* The save half of a call: userRepository.Update of the entity read earlier,
\* then the call returns.
CommitCall(r) ==
    /\ calls[r].pc = "save"
    /\ users' = IF calls[r].saved # NoUser THEN UpdateUser(users, calls[r].saved) ELSE users
    /\ calls' = [calls EXCEPT ![r] = IdleCall]
    /\ resp' = Response(calls[r].op, calls[r].err, calls[r].in)
    /\ UNCHANGED <<now, refreshTokens, reqs, refreshLog, logoutRevoked, tokenSeq>>

NextOverlap ==
    \/ \E e \in RegisteringEmails, p \in Passwords, outcome \in RegisterOutcomes :
          CallRegister(e, p, outcome)
    \/ \E r \in Reqs, token \in PresentableAccountTokens : BeginVerifyEmail(r, token)
    \/ \E r \in Reqs, e \in Emails, outcome \in Outcomes :
          BeginResendVerificationEmail(r, e, outcome)
    \/ \E r \in Reqs, e \in Emails, outcome \in Outcomes : BeginForgotPassword(r, e, outcome)
    \/ \E r \in Reqs, token \in PresentableAccountTokens, p \in Passwords :
          BeginResetPassword(r, token, p)
    \/ \E r \in Reqs, id \in UserIDs : BeginUpdate(r, id)
    \/ \E r \in Reqs, userInfo \in GoogleUserInfos : BeginHandleGoogleCallback(r, userInfo)
    \/ \E r \in Reqs : CommitCall(r)

SpecOverlap == InitUseCase /\ [][NextOverlap]_vars

\* C16: once a user's email_verified flag is true in the users table it is
\* never false again (and the row does not disappear).
EmailVerifiedIsOneWay ==
    [][ \A u \in users : u.emailVerified =>
            \E v \in users' : v.id = u.id /\ v.emailVerified ]_vars

\* C17: ForgotPassword returns no error for every email, whatever happens to
\* the token generation, the store update and the email send.
ForgotPasswordAlwaysSucceeds ==
    resp.op = "ForgotPassword" => resp.err = ErrNone

\* An account with a password hash (not OAuth-only)
HasPasswordHash(u) == u # NoUser /\ u.password # ""

\* C18: a ForgotPassword call whose token generation and store update go
\* through sets a reset token expiring ResetTTL from now on the account of the
\* email exactly when that account exists and has a password hash, linked
\* OAuth identity or not; for an unknown email or an OAuth-only account no user
\* record changes.
ForgotPasswordTokenExactlyForPasswordAccounts ==
    [][ resp'.op = "ForgotPassword" =>
            LET u == AccountOf(users, resp'.in.email)
                v == AccountOf(users', resp'.in.email)
            IN /\ (HasPasswordHash(u) /\ resp'.err \in {ErrNone, ErrSendEmail}) =>
                      /\ v.resetPasswordToken = generateRandomToken(tokenSeq')
                      /\ tokenSeq' = tokenSeq + 1
                      /\ v.resetPasswordTokenExpiresAt = now + ResetTTL
               /\ ~HasPasswordHash(u) => users' = users ]_vars

HeldForReset(table, token) == \E u \in table : u.resetPasswordToken = token

\* C19: ResetPassword with a token that a user holds and that is not past its
\* stored expiry replaces the password hash and clears the reset token and its
\* expiry in one update; a token no row holds any more is never held again,
\* and ResetPassword with it fails with InvalidResetToken and changes nothing.
ResetPasswordConsumesToken ==
    [][ /\ resp'.op = "ResetPassword" =>
              \A u \in users :
                  (/\ u.resetPasswordToken = resp'.in.token
                   /\ resp'.in.token # ""
                   /\ now <= u.resetPasswordTokenExpiresAt)
                  => LET v == AccountOf(users', u.email)
                     IN /\ resp'.err = ErrNone
                        /\ v = [u EXCEPT
                                  !.password = GenerateFromPassword(resp'.in.newPassword),
                                  !.resetPasswordToken = "",
                                  !.resetPasswordTokenExpiresAt = Null]
                        /\ users' = (users \ {u}) \cup {v}
                        /\ ~HeldForReset(users', resp'.in.token)
        /\ \A token \in IssuedTokens :
              ~HeldForReset(users, token) => ~HeldForReset(users', token)
        /\ (/\ resp'.op = "ResetPassword"
            /\ resp'.in.token \in IssuedTokens
            /\ ~HeldForReset(users, resp'.in.token))
           => /\ resp'.err = ErrInvalidResetToken
              /\ users' = users
      ]_vars

\* C19 witness: the reset token issued after registration changed the
\* password and was then presented again.
UsedResetTokenPresentedAgain ==
    /\ resp.op = "ResetPassword"
    /\ tokenSeq = 2
    /\ resp.in.token = generateRandomToken(2)
    /\ resp.err = ErrInvalidResetToken
    /\ \E u \in users : /\ u.password = GenerateFromPassword("pw2")
                        /\ u.resetPasswordToken = ""
                        /\ ~u.emailVerified

\* The password hash and reset-token fields of every user
ResetFields(table) ==
    {[id |-> u.id, password |-> u.password, resetPasswordToken |-> u.resetPasswordToken,
      resetPasswordTokenExpiresAt |-> u.resetPasswordTokenExpiresAt] : u \in table}

\* C20: ResetPassword fails with InvalidResetToken when no user holds the
\* presented token and with ResetTokenExpired when the holder's stored expiry
\* has passed; in both cases no password hash or reset-token field changes.
ResetPasswordFailuresChangeNothing ==
    [][ resp'.op = "ResetPassword" =>
            /\ ~HeldForReset(users, resp'.in.token) =>
                  resp'.err = ErrInvalidResetToken
            /\ (\E u \in users : /\ u.resetPasswordToken = resp'.in.token
                                 /\ now > u.resetPasswordTokenExpiresAt) =>
                  resp'.err = ErrResetTokenExpired
            /\ resp'.err \in {ErrInvalidResetToken, ErrResetTokenExpired} =>
                  ResetFields(users') = ResetFields(users) ]_vars

\* C20 witness: a reset token that was issued and is still stored was
\* presented after its window had passed.
ExpiredResetTokenPresented ==
    /\ resp.op = "ResetPassword"
    /\ resp.err = ErrResetTokenExpired
    /\ resp.in.token \in IssuedTokens
    /\ HeldForReset(users, resp.in.token)

----------------------------------------------------------------------------
(* Verification and reset tokens of password accounts *)

NextTokens ==
    \/ \E e \in RegisteringEmails, p \in Passwords, outcome \in RegisterOutcomes :
          CallRegister(e, p, outcome)
    \/ \E token \in PresentableAccountTokens : CallVerifyEmail(token)
    \/ \E e \in Emails, outcome \in Outcomes : CallResendVerificationEmail(e, outcome)
    \/ \E e \in Emails, outcome \in Outcomes : CallForgotPassword(e, outcome)
    \/ \E token \in PresentableAccountTokens, p \in Passwords : CallResetPassword(token, p)
    \/ Tick

SpecTokens == InitUseCase /\ [][NextTokens]_vars

\* C21: a user has one outstanding verification token and one outstanding
\* reset token at most: a ResendVerificationEmail or ForgotPassword whose
\* update goes through stores a token never issued before in place of the
\* pending one, the replaced value is held by no user afterwards, a token no
\* user holds is refused (InvalidVerificationToken, InvalidResetToken), and a
\* call succeeds only with the token its user holds at that moment.
ReplacedTokenIsNoLongerAccepted ==
    [][ /\ (/\ resp'.op = "ResendVerificationEmail"
            /\ resp'.err \in {ErrNone, ErrSendEmail}) =>
              LET u == AccountOf(users, resp'.in.email)
                  v == AccountOf(users', resp'.in.email)
              IN /\ tokenSeq' = tokenSeq + 1
                 /\ v.verificationToken = generateRandomToken(tokenSeq')
                 /\ v.verificationToken \notin IssuedTokens
                 /\ u.verificationToken # "" =>
                        ~HeldForVerification(users', u.verificationToken)
        /\ (/\ resp'.op = "ForgotPassword"
            /\ resp'.err \in {ErrNone, ErrSendEmail}
            /\ AccountOf(users, resp'.in.email) # NoUser) =>
              LET u == AccountOf(users, resp'.in.email)
                  v == AccountOf(users', resp'.in.email)
              IN /\ tokenSeq' = tokenSeq + 1
                 /\ v.resetPasswordToken = generateRandomToken(tokenSeq')
                 /\ v.resetPasswordToken \notin IssuedTokens
                 /\ u.resetPasswordToken # "" =>
                        ~HeldForReset(users', u.resetPasswordToken)
        /\ resp'.op = "VerifyEmail" =>
              /\ resp'.err = ErrNone => HeldForVerification(users, resp'.in.token)
              /\ (/\ resp'.in.token \in IssuedTokens
                  /\ ~HeldForVerification(users, resp'.in.token))
                 => resp'.err = ErrInvalidVerificationToken /\ users' = users
        /\ resp'.op = "ResetPassword" =>
              /\ resp'.err = ErrNone => HeldForReset(users, resp'.in.token)
              /\ (/\ resp'.in.token \in IssuedTokens
                  /\ ~HeldForReset(users, resp'.in.token))
                 => resp'.err = ErrInvalidResetToken /\ users' = users
      ]_vars

\* C21 witness: the verification token issued at registration was replaced by
\* a resend and then presented: it is refused while the newer one is pending.
ReplacedVerificationTokenPresented ==
    /\ resp.op = "VerifyEmail"
    /\ resp.in.token = generateRandomToken(1)
    /\ resp.err = ErrInvalidVerificationToken
    /\ \E u \in users : /\ ~u.emailVerified
                        /\ u.verificationToken = generateRandomToken(2)

----------------------------------------------------------------------------
(* Account creation: both Register use cases and the Google callback *)

CallUserRegister(email, password, outcome) ==
    LET r == UserUseCaseRegister(users, email, password, outcome)
    IN /\ users' = r.table
       /\ resp' = Response("UserUseCase.Register", r.err,
                           [email |-> email, password |-> password, outcome |-> outcome])
       /\ UNCHANGED <<now, refreshTokens, reqs, refreshLog, logoutRevoked, tokenSeq, calls>>

NextRegistration ==
    \/ \E e \in Emails, p \in Passwords, outcome \in RegisterOutcomes :
          CallRegister(e, p, outcome)
    \/ \E e \in Emails, p \in Passwords, outcome \in RegisterOutcomes :
          CallUserRegister(e, p, outcome)
    \/ \E token \in PresentableAccountTokens : CallVerifyEmail(token)
    \/ \E userInfo \in GoogleUserInfos : CallHandleGoogleCallback(userInfo)
    \/ Tick

SpecRegistration == InitUseCase /\ [][NextRegistration]_vars

\* C22: Register for an email that a user already holds fails with the
\* already-exists error of its use case, returns no user, creates nothing and
\* leaves every user record as it was.
RegisterExistingEmailChangesNothing ==
    [][ /\ (resp'.op = "Register" /\ AccountOf(users, resp'.in.email) # NoUser) =>
              /\ resp'.err = ErrUserAlreadyExists
              /\ Register(users, resp'.in.email, resp'.in.password,
                          generateRandomToken(tokenSeq + 1), now,
                          resp'.in.outcome).saved = NoUser
              /\ users' = users
              /\ tokenSeq' = tokenSeq
        /\ (/\ resp'.op = "UserUseCase.Register"
            /\ AccountOf(users, resp'.in.email) # NoUser) =>
              /\ resp'.err = ErrUserExists
              /\ UserUseCaseRegister(users, resp'.in.email, resp'.in.password,
                                     resp'.in.outcome).saved = NoUser
              /\ users' = users
      ]_vars

\* C22 witness: Register was refused for the email of a stored user
RegisterRefusedForExistingEmail ==
    /\ resp.op = "Register"
    /\ resp.err = ErrUserAlreadyExists
    /\ AccountOf(users, resp.in.email) # NoUser

\* C23: Register for a new email, when hashing, token generation and the
\* insert work, succeeds and returns the user it has stored, unverified, with
\* a fresh verification token expiring VerificationTTL from now, whether or
\* not the verification email could be sent; nothing else in the store changes.
RegisterSucceedsDespiteEmailFailure ==
    [][ (/\ resp'.op = "Register"
         /\ AccountOf(users, resp'.in.email) = NoUser
         /\ resp'.in.outcome \in {"ok", "emailFail"}) =>
            LET v == AccountOf(users', resp'.in.email)
            IN /\ resp'.err = ErrNone
               /\ v # NoUser
               /\ v = Register(users, resp'.in.email, resp'.in.password,
                               generateRandomToken(tokenSeq + 1), now,
                               resp'.in.outcome).saved
               /\ ~v.emailVerified
               /\ CompareHashAndPassword(v.password, resp'.in.password)
               /\ v.verificationToken = generateRandomToken(tokenSeq')
               /\ v.verificationToken \notin IssuedTokens
               /\ v.verificationTokenExpiresAt = now + VerificationTTL
               /\ users' = users \cup {v} ]_vars

\* C23 witness: a registration whose verification email could not be sent
\* returned success and its user is stored
RegisteredWithoutEmail ==
    /\ resp.op = "Register"
    /\ resp.in.outcome = "emailFail"
    /\ resp.err = ErrNone
    /\ \E u \in users : u.email = resp.in.email /\ u.verificationToken # ""

----------------------------------------------------------------------------
(* Google sign-in next to password registration.  Google reports an id and   *)
(* an email; the email of a Google account can change and an email can pass  *)
(* to another Google account, so every pairing can arrive.                   *)

CallbackUserInfos == {[ID |-> id, Email |-> e] : id \in {"g1", "g2"}, e \in Emails}

NextOAuth ==
    \/ \E e \in RegisteringEmails, p \in Passwords, outcome \in RegisterOutcomes :
          CallRegister(e, p, outcome)
    \/ \E userInfo \in CallbackUserInfos : CallHandleGoogleCallback(userInfo)
    \/ \E token \in PresentableAccountTokens : CallVerifyEmail(token)
    \/ Tick

SpecOAuth == InitUseCase /\ [][NextOAuth]_vars

\* C24: a callback whose provider and external id match a stored user returns
\* that user and writes nothing: the user store is unchanged.
CallbackForKnownIdentityWritesNothing ==
    [][ resp'.op = "HandleGoogleCallback" =>
            LET byOAuth == GetByOAuthID(users, GoogleProvider, resp'.in.ID)
            IN byOAuth.err = ErrNone =>
                  /\ resp'.in.user = byOAuth.user.id
                  /\ ~resp'.in.wrote
                  /\ users' = users ]_vars

\* C24 witness: a callback returned a stored user without writing
KnownIdentityReturned ==
    /\ resp.op = "HandleGoogleCallback"
    /\ ~resp.in.wrote
    /\ \E u \in users : /\ u.id = resp.in.user
                        /\ u.oauthProvider = GoogleProvider
                        /\ u.oauthID = resp.in.ID

\* C25: a callback links its Google identity to the account of its email only
\* when that account has no OAuth link yet: a stored provider and external id
\* are never replaced.
OAuthLinkIsNeverOverwritten ==
    [][ resp'.op = "HandleGoogleCallback" =>
            \A u \in users : IsOAuthUser(u) =>
                \E v \in users' : /\ v.id = u.id
                                  /\ v.oauthProvider = u.oauthProvider
                                  /\ v.oauthID = u.oauthID ]_vars

\* C26: a callback whose identity is not known yet and whose email belongs to
\* a stored account links that account and creates nothing; every callback
\* returns the user that holds its identity afterwards, the one that held it
\* before if there was one; and no two user records ever share an email.
CallbackLinksInsteadOfDuplicating ==
    [][ /\ resp'.op = "HandleGoogleCallback" =>
              LET byOAuth == GetByOAuthID(users, GoogleProvider, resp'.in.ID)
                  u == AccountOf(users, resp'.in.Email)
              IN /\ (byOAuth.err # ErrNone /\ u # NoUser) =>
                        /\ resp'.in.user = u.id
                        /\ users' = (users \ {u}) \cup
                                        {[u EXCEPT !.oauthProvider = GoogleProvider,
                                                   !.oauthID = resp'.in.ID]}
                 /\ \E v \in users' : /\ v.id = resp'.in.user
                                      /\ v.oauthProvider = GoogleProvider
                                      /\ v.oauthID = resp'.in.ID
                 /\ byOAuth.err = ErrNone => resp'.in.user = byOAuth.user.id
        /\ \A v, w \in users' : v.email = w.email => v = w
      ]_vars

\* C26 witness: a callback found the password account that an earlier
\* callback had linked to its identity and returned it
LinkedPasswordAccountReturned ==
    /\ resp.op = "HandleGoogleCallback"
    /\ ~resp.in.wrote
    /\ Cardinality(users) = 1
    /\ \E u \in users : /\ u.id = resp.in.user
                        /\ u.email = resp.in.Email
                        /\ u.password # ""
                        /\ u.oauthID = resp.in.ID

----------------------------------------------------------------------------
(* Every operation that creates or changes a user, one call at a time *)

CallUpdate(id) ==
    LET r == UserUseCaseUpdate(users, id)
    IN /\ users' = r.table
       /\ resp' = Response("Update", r.err, [id |-> id])
       /\ UNCHANGED <<now, refreshTokens, reqs, refreshLog, logoutRevoked, tokenSeq, calls>>

NextLifecycle ==
    \/ \E e \in RegisteringEmails, p \in Passwords, outcome \in RegisterOutcomes :
          CallRegister(e, p, outcome)
    \/ \E e \in RegisteringEmails, p \in Passwords, outcome \in RegisterOutcomes :
          CallUserRegister(e, p, outcome)
    \/ \E userInfo \in GoogleUserInfos : CallHandleGoogleCallback(userInfo)
    \/ \E token \in PresentableAccountTokens : CallVerifyEmail(token)
    \/ \E e \in Emails, outcome \in Outcomes : CallForgotPassword(e, outcome)
    \/ \E token \in PresentableAccountTokens, p \in Passwords : CallResetPassword(token, p)
    \/ \E id \in UserIDs : CallUpdate(id)
    \/ Tick

SpecLifecycle == InitUseCase /\ [][NextLifecycle]_vars

\* C27: every stored user has a password hash, or a complete OAuth link
\* (provider and external id), or both.
EveryAccountCanAuthenticate ==
    \A u \in users : u.password # "" \/ IsOAuthUser(u)

\* C27 witness: a password was reset while the store held an account with a
\* password hash and an account that only Google sign-in can open
PasswordAndOAuthOnlyAccountsStored ==
    /\ resp.op = "ResetPassword"
    /\ resp.err = ErrNone
    /\ \E u \in users : u.password # "" /\ u.resetPasswordToken = ""
    /\ \E u \in users : u.password = "" /\ IsOAuthUser(u)

----------------------------------------------------------------------------
(* The refresh token use case and repository called directly *)

\* The number of refresh-token records these calls keep in the store
MaxRecords == 2

\* The lifetimes a deployment can configure for refresh tokens
StoreTTLs == {1, RefreshTTL}

\* The token strings a caller can pass: the stored ones and one never stored
PresentableRefreshTokens ==
    {rt.token : rt \in refreshTokens} \cup {generateToken("u1", RefreshToken, 0, 0)}

CallCreateRefreshToken(userID, duration) ==
    LET token == generateToken(userID, RefreshToken, duration, now)
        c == CreateRefreshToken(refreshTokens, userID, token, now + duration, now)
    IN /\ Cardinality(refreshTokens) < MaxRecords
       /\ refreshTokens' = c.store
       /\ resp' = Response("CreateRefreshToken", c.err, [token |-> token])
       /\ UNCHANGED <<now, users, reqs, refreshLog, logoutRevoked, tokenSeq, calls>>

CallValidateRefreshToken(token) ==
    LET v == ValidateRefreshToken(refreshTokens, token, now)
    IN /\ resp' = Response("ValidateRefreshToken", v.err, [token |-> token, rec |-> v.rec])
       /\ UNCHANGED <<now, users, refreshTokens, reqs, refreshLog, logoutRevoked, tokenSeq,
                      calls>>

CallRevokeRefreshToken(token) ==
    /\ refreshTokens' = RevokeRefreshToken(refreshTokens, token, now)
    /\ resp' = Response("RevokeRefreshToken", ErrNone, [token |-> token])
    /\ UNCHANGED <<now, users, reqs, refreshLog, logoutRevoked, tokenSeq, calls>>

CallRevokeAllUserTokens(userID) ==
    /\ refreshTokens' = RevokeAllUserTokens(refreshTokens, userID, now)
    /\ resp' = Response("RevokeAllUserTokens", ErrNone, [uid |-> userID])
    /\ UNCHANGED <<now, users, reqs, refreshLog, logoutRevoked, tokenSeq, calls>>

CallDeleteExpired ==
    /\ refreshTokens' = DeleteExpired(refreshTokens, now)
    /\ resp' = Response("DeleteExpired", ErrNone, NoToken)
    /\ UNCHANGED <<now, users, reqs, refreshLog, logoutRevoked, tokenSeq, calls>>

NextRefreshStore ==
    \/ \E userID \in UserIDs, duration \in StoreTTLs : CallCreateRefreshToken(userID, duration)
    \/ \E token \in PresentableRefreshTokens : CallValidateRefreshToken(token)
    \/ \E token \in PresentableRefreshTokens : CallRevokeRefreshToken(token)
    \/ \E userID \in UserIDs : CallRevokeAllUserTokens(userID)
    \/ CallDeleteExpired
    \/ Tick

SpecRefreshStore == InitUseCase /\ [][NextRefreshStore]_vars

\* C28: ValidateRefreshToken returns the stored record exactly when its
\* revocation timestamp is unset and the clock is strictly before its expiry;
\* it answers RefreshTokenNotFound for a token without record, TokenRevoked
\* whenever the revocation timestamp is set, expired or not, and TokenExpired
\* for an unrevoked record at or past its expiry.
ValidateRefreshTokenFollowsValidity ==
    resp.op = "ValidateRefreshToken" =>
        LET rows == {rt \in refreshTokens : rt.token = resp.in.token}
        IN /\ rows = {} => resp.err = ErrRefreshTokenNotFound
           /\ \A rt \in rows :
                 /\ rt.revokedAt # Null => resp.err = ErrTokenRevoked
                 /\ (rt.revokedAt = Null /\ now >= rt.expiresAt) =>
                        resp.err = ErrTokenExpired
                 /\ (rt.revokedAt = Null /\ now < rt.expiresAt) =>
                        resp.err = ErrNone /\ resp.in.rec = rt
           /\ resp.err # ErrNone => resp.in.rec = NoRecord

\* C28 witness: a record that is both revoked and past its expiry was
\* presented and reported as revoked
RevokedAndExpiredReportedRevoked ==
    /\ resp.op = "ValidateRefreshToken"
    /\ resp.err = ErrTokenRevoked
    /\ \E rt \in refreshTokens : /\ rt.token = resp.in.token
                                 /\ rt.revokedAt # Null
                                 /\ now >= rt.expiresAt

\* C29: revocation only marks.  RevokeRefreshToken and RevokeAllUserTokens
\* delete no record, no operation clears a revocation timestamp, and a record
\* that has been revoked is never valid again.
RevokedRecordsStayRevoked ==
    [][ /\ resp'.op \in {"RevokeRefreshToken", "RevokeAllUserTokens"} =>
              {rt.token : rt \in refreshTokens'} = {rt.token : rt \in refreshTokens}
        /\ \A rt \in refreshTokens : rt.revokedAt # Null =>
              \A rt2 \in refreshTokens' : rt2.token = rt.token =>
                  /\ rt2.revokedAt # Null
                  /\ ValidateRefreshToken(refreshTokens', rt2.token, now').err # ErrNone
      ]_vars

\* C29 witness: a record revoked earlier and not yet past its expiry went
\* through a later revocation of all its user's tokens and is still stored,
\* revoked
RevokedRecordRevokedAgain ==
    /\ resp.op = "RevokeAllUserTokens"
    /\ \E rt \in refreshTokens : /\ rt.userID = resp.in.uid
                                 /\ rt.revokedAt # Null
                                 /\ rt.revokedAt < now
                                 /\ now < rt.expiresAt

\* C30: revoking by token string is idempotent: revoking a record that is
\* already revoked leaves it as the first revocation left it, revocation
\* timestamp included, and revoking a token without record changes nothing;
\* neither returns an error.
RevokeIsIdempotent ==
    [][ resp'.op = "RevokeRefreshToken" =>
            /\ resp'.err = ErrNone
            /\ (\A rt \in refreshTokens : rt.token = resp'.in.token => rt.revokedAt # Null)
                  => refreshTokens' = refreshTokens ]_vars

----------------------------------------------------------------------------
(* The password authentication of the user use case, called directly on     *)
(* the accounts that registration, Google sign-in and password reset leave. *)

\* The response carries the user the call returned (NoUser for nil)
CallAuthenticate(email, password) ==
    LET r == Authenticate(users, email, password)
    IN /\ resp' = Response("Authenticate", r.err,
                           [email |-> email, password |-> password, user |-> r.user])
       /\ UNCHANGED <<now, users, refreshTokens, reqs, refreshLog, logoutRevoked, tokenSeq, calls>>

NextAuthenticate ==
    \/ \E e \in RegisteringEmails, p \in Passwords, outcome \in RegisterOutcomes :
          CallUserRegister(e, p, outcome)
    \/ \E userInfo \in GoogleUserInfos : CallHandleGoogleCallback(userInfo)
    \/ \E e \in Emails, outcome \in Outcomes : CallForgotPassword(e, outcome)
    \/ \E token \in PresentableAccountTokens, p \in Passwords : CallResetPassword(token, p)
    \/ \E e \in Emails, p \in Passwords : CallAuthenticate(e, p)
    \/ Tick

SpecAuthenticate == InitUseCase /\ [][NextAuthenticate]_vars

\* C31: Authenticate returns the stored user when the email exists and the
\* password verifies against the stored hash; when the email is unknown and
\* when the password does not verify it returns ErrInvalidCredentials and no
\* user.
AuthenticateFollowsCredentials ==
    resp.op = "Authenticate" =>
        LET rows == {u \in users : u.email = resp.in.email}
        IN /\ rows = {} => (resp.err = ErrInvalidCredentials /\ resp.in.user = NoUser)
           /\ \A u \in rows :
                 IF CompareHashAndPassword(u.password, resp.in.password)
                 THEN resp.err = ErrNone /\ resp.in.user = u
                 ELSE resp.err = ErrInvalidCredentials /\ resp.in.user = NoUser

\* C31 witness: a known email was presented with a password that does not
\* verify and the call answered ErrInvalidCredentials without a user, while
\* the other stored account cannot authenticate by password at all
WrongPasswordForKnownEmailRefused ==
    /\ resp.op = "Authenticate"
    /\ resp.err = ErrInvalidCredentials
    /\ resp.in.user = NoUser
    /\ \E u \in users : /\ u.email = resp.in.email
                        /\ u.password # ""
                        /\ ~CompareHashAndPassword(u.password, resp.in.password)
    /\ \E u \in users : u.password = ""

----------------------------------------------------------------------------
(* Logout against refresh requests in flight *)

\* The operations that open a session: password login and Google sign-in
LoginOps == {"Login", "UserHandler.Login", "HandleGoogleCallback"}

\* C32: once Logout for a user has completed, and as long as no login of that
\* user follows, the user has no valid refresh-token record: the step that
\* follows a completed Logout, unless it is a login, leaves the logged-out
\* user without a valid record, also when that step is a refresh request
\* that passed its validation before the Logout and persists its new token
\* now.
LogoutDefeatsInFlightRefresh ==
    [][ (resp.op = "Logout" /\ resp.err = ErrNone /\ resp'.op \notin LoginOps)
            => \A rt \in refreshTokens' :
                   rt.userID = resp.in.uid => ~IsValid(rt, now') ]_vars

----------------------------------------------------------------------------
(* Overlapping calls that present or create the same thing *)

\* C33: a reset token effects at most one password change: two ResetPassword
\* calls that present the same reset token with different new passwords
\* never both return success and replace the password hash.
ResetTokenChangesPasswordOnce ==
    [][ ~ /\ resp.op = "ResetPassword" /\ resp.err = ErrNone
          /\ resp'.op = "ResetPassword" /\ resp'.err = ErrNone
          /\ resp'.in.token = resp.in.token
          /\ resp'.in.newPassword # resp.in.newPassword
          /\ \E u \in users : u.password = GenerateFromPassword(resp.in.newPassword)
          /\ \E u \in users' : u.password = GenerateFromPassword(resp'.in.newPassword)
      ]_vars

\* userRepository.Create under the unique index on users.email (UserModel:
\* gorm uniqueIndex); an insert that fails for another reason is the
\* createFail outcome of the call
InsertUser(table, user) ==
    IF \E u \in table : u.email = user.email
    THEN [err |-> ErrCreateUser, table |-> table]
    ELSE [err |-> ErrNone, table |-> CreateUser(table, user)]

\* authUseCase.Register up to userRepo.Create: the existence pre-check, the
\* hash and the verification token.  A call that fails there returns at once;
\* otherwise it keeps the entity it is about to insert.  The uuid of the
\* entity is fresh and is fixed when the row is inserted.
BeginRegister(r, email, password, outcome) ==
    LET res == Register(users, email, password, generateRandomToken(tokenSeq + 1), now,
                        outcome)
        in == [email |-> email, password |-> password, outcome |-> outcome]
    IN /\ tokenSeq < MaxTokens
       /\ calls[r].pc = "idle"
       /\ \A q \in Reqs : q < r => calls[q].pc # "idle"
       /\ IF res.saved = NoUser
          THEN /\ resp' = Response("Register", res.err, in)
               /\ UNCHANGED <<calls, tokenSeq>>
          ELSE /\ calls' = [calls EXCEPT ![r] = [pc |-> "create", op |-> "Register",
                                                  err |-> res.err, saved |-> res.saved,
                                                  in |-> in]]
               /\ tokenSeq' = tokenSeq + 1
               /\ resp' = Response("Register", "pending", in)
       /\ UNCHANGED <<now, users, refreshTokens, reqs, refreshLog, logoutRevoked>>

\* authUseCase.Register from userRepo.Create on: the insert, the verification
\* mail (a failed send is logged only) and the return.
CommitRegister(r) ==
    LET c == calls[r]
        entity == IF \E id \in UserIDs : \A u \in users : u.id # id
                  THEN [c.saved EXCEPT !.id = NewID(users)]
                  ELSE c.saved
        ins == InsertUser(users, entity)
    IN /\ c.pc = "create"
       /\ calls' = [calls EXCEPT ![r] = IdleCall]
       /\ IF ins.err # ErrNone
          THEN /\ resp' = Response("Register", ins.err, c.in)
               /\ UNCHANGED users
          ELSE /\ users' = ins.table
               /\ resp' = Response("Register", c.err, c.in)
       /\ UNCHANGED <<now, refreshTokens, reqs, refreshLog, logoutRevoked, tokenSeq>>

NextRegisterRace ==
    \/ \E r \in Reqs, e \in Emails, p \in Passwords, outcome \in RegisterOutcomes :
          BeginRegister(r, e, p, outcome)
    \/ \E r \in Reqs : CommitRegister(r)
    \/ Tick

SpecRegisterRace == InitUseCase /\ [][NextRegisterRace]_vars

\* C34: when Register calls for one email overlap and all pass the existence
\* pre-check, the users table never holds two rows with that email, the call
\* that reaches the store first creates the user, and a call that reaches
\* the store when the email is already there creates nothing and fails
\* with the AlreadyExists error.
RegisterRaceLoserGetsAlreadyExists ==
    [][ /\ \A u, v \in users' : u.email = v.email => u = v
        /\ (resp'.op = "Register" /\ resp'.err # "pending"
              /\ resp'.in.outcome \in {"ok", "emailFail"}) =>
              IF \E u \in users : u.email = resp'.in.email
              THEN users' = users /\ resp'.err = ErrUserAlreadyExists
              ELSE /\ resp'.err = ErrNone
                   /\ \E u \in users' \ users : u.email = resp'.in.email
      ]_vars

----------------------------------------------------------------------------
(* Refresh requests that fail, and the uniqueness of issued token strings *)

\* The errors of the validation steps of UserHandler.RefreshToken
RefreshValidationErrors ==
    {ErrInvalidToken, ErrTokenExpired, ErrTokenRevoked, ErrRefreshTokenNotFound,
     ErrTokenMismatch}

\* C35: a refresh request that returns an error does not consume the
\* presented token: a request refused at validation changes no record, and a
\* request that fails at a later step (generation, revocation, persisting
\* the new token) returns with the presented token's record unrevoked.
FailedRefreshKeepsPresentedToken ==
    [][ (resp'.op = "RefreshToken" /\ resp'.err \notin {ErrNone, "pending"}) =>
            IF resp'.err \in RefreshValidationErrors
            THEN refreshTokens' = refreshTokens
            ELSE \A rt \in refreshTokens' : rt.token = resp'.in => rt.revokedAt = Null
      ]_vars

\* C36: every refresh token string issued by login, Google sign-in or refresh
\* differs from every token string the store already holds, also within one
\* clock second, so persisting it is never refused by the unique index on
\* the token column.
IssuedRefreshTokensAreFresh ==
    resp.op \in LoginOps \cup {"RefreshToken"} => resp.err # ErrStoreRefreshToken

----------------------------------------------------------------------------
(* Failures of ResendVerificationEmail, and what password reset leaves alone *)

\* C37: when ResendVerificationEmail returns an error (unknown user, already
\* verified, token generation, store update or email send), the user's stored
\* verification token and its expiry are what they were before the call.
FailedResendKeepsVerificationToken ==
    [][ (resp'.op = "ResendVerificationEmail" /\ resp'.err # ErrNone) =>
            \A u \in users : u.email = resp'.in.email =>
                \E v \in users' :
                    /\ v.id = u.id
                    /\ v.verificationToken = u.verificationToken
                    /\ v.verificationTokenExpiresAt = u.verificationTokenExpiresAt
      ]_vars

----------------------------------------------------------------------------
(* The Authenticate middleware in front of the protected routes *)

\* A middleware that also wants a live session in the refresh-token store
AuthMiddlewareRequiresSession(bearer, t) ==
    LET v == ValidateToken(bearer, AccessToken, t, t)
    IN IF v.err = ErrNone
          /\ ~\E rt \in refreshTokens : rt.userID = v.claims.uid /\ IsValid(rt, t)
       THEN [err |-> ErrTokenRevoked, claims |-> NoClaims]
       ELSE v

\* AuthMiddleware.Authenticate on the bearer token of the Authorization header
AuthMiddlewareAuthenticate(bearer, t) == ValidateToken(bearer, AccessToken, t, t)

\* GET /users/me: the middleware, then UserHandler.GetProfile for the user id
\* the middleware put into the context
GetProfile(bearer) ==
    LET m == AuthMiddlewareAuthenticate(bearer, now)
        found == GetByID(users, m.claims.uid)
    IN /\ resp' = IF m.err # ErrNone
                  THEN Response("GetProfile", "invalid or expired token",
                                [bearer |-> bearer, uid |-> ""])
                  ELSE Response("GetProfile", found.err,
                                [bearer |-> bearer, uid |-> m.claims.uid])
       /\ UNCHANGED <<now, users, refreshTokens, reqs, refreshLog, logoutRevoked, tokenSeq,
                      calls>>

\* Logins, Logout (which revokes the refresh tokens of all the user's
\* sessions) and requests to the protected route
NextProtected ==
    \/ \E e \in Emails, p \in Passwords : AuthHandlerLogin(e, p)
    \/ \E bearer \in PresentableTokens : Logout(bearer)
    \/ \E bearer \in PresentableTokens : GetProfile(bearer)
    \/ Tick

SpecProtected == InitSession /\ [][NextProtected]_vars

\* C38: the middleware accepts a request exactly when the presented JWT is
\* signed under the service's secret with an HMAC method, is of type access
\* and is within its lifetime, and then acts for the user id of the JWT; the
\* state of the refresh-token store plays no part, so an access token issued
\* before a Logout or before the revocation of its session's refresh token
\* is accepted until its own expiry.
MiddlewareDecidesOnJWTAlone ==
    resp.op = "GetProfile" =>
        LET bearer == resp.in.bearer
            jwtOK == /\ bearer.alg \in HMACFamily
                     /\ bearer.key = SecretKey
                     /\ bearer.typ = AccessToken
                     /\ bearer.iat <= now
                     /\ now < bearer.exp
        IN /\ jwtOK => (resp.err = ErrNone /\ resp.in.uid = bearer.uid)
           /\ ~jwtOK => resp.err = "invalid or expired token"

\* C38 witness: an access token was accepted although a Logout had revoked
\* every refresh-token record of its user
AccessTokenAcceptedAfterLogout ==
    /\ resp.op = "GetProfile"
    /\ resp.err = ErrNone
    /\ \E rt \in refreshTokens : rt.userID = resp.in.uid /\ rt.token \in logoutRevoked
    /\ \A rt \in refreshTokens : rt.userID = resp.in.uid => rt.revokedAt # Null

\* Password reset next to open sessions: accounts register, log in at the
\* routed login, ask for a reset token and reset the password.
NextResetSessions ==
    \/ \E e \in RegisteringEmails, p \in Passwords, outcome \in RegisterOutcomes :
          CallRegister(e, p, outcome)
    \/ \E userInfo \in GoogleUserInfos : CallHandleGoogleCallback(userInfo)
    \/ \E e \in RegisteringEmails, p \in Passwords : UserHandlerLogin(e, p)
    \/ \E e \in RegisteringEmails, outcome \in Outcomes : CallForgotPassword(e, outcome)
    \/ \E token \in PresentableAccountTokens, p \in Passwords : CallResetPassword(token, p)
    \/ Tick

SpecResetSessions == InitUseCase /\ [][NextResetSessions]_vars

\* C39: ResetPassword changes nothing but the password hash and the
\* reset-token fields of the user the token belongs to: every other user row
\* and every other field stay as they were, and the refresh-token store is
\* left unchanged, so every refresh token that was valid before the reset is
\* valid after it.
ResetPasswordLeavesSessionsAlone ==
    [][ resp'.op = "ResetPassword" =>
            /\ refreshTokens' = refreshTokens
            /\ \A rt \in refreshTokens : IsValid(rt, now) =>
                  ValidateRefreshToken(refreshTokens', rt.token, now').err = ErrNone
            /\ {u.id : u \in users'} = {u.id : u \in users}
            /\ \A u \in users : \A v \in users' : v.id = u.id =>
                  /\ [v EXCEPT !.password = u.password,
                               !.resetPasswordToken = u.resetPasswordToken,
                               !.resetPasswordTokenExpiresAt = u.resetPasswordTokenExpiresAt]
                        = u
                  /\ (resp'.in.token = "" \/ u.resetPasswordToken # resp'.in.token) => v = u
      ]_vars

\* C39 witness: a password was reset for an account that holds a valid
\* refresh token from a login before the reset
PasswordResetWithOpenSession ==
    /\ resp.op = "ResetPassword"
    /\ resp.err = ErrNone
    /\ \E u \in users :
          /\ u.password = GenerateFromPassword(resp.in.newPassword)
          /\ u.resetPasswordToken = ""
          /\ \E rt \in refreshTokens : rt.userID = u.id /\ IsValid(rt, now)
    /\ Cardinality(users) = 2

====
